---- MODULE Spec2Model ----
(***************************************************************************)
(* A state-machine model of the Vulkan render context of dgfx              *)
(* (src/src/vulkan/RenderContextVK.cpp): the resource registry and its     *)
(* command handlers, the pipeline and descriptor-set caches, the uniform   *)
(* staging buffers and the per-frame synchronisation protocol of frame().  *)
(***************************************************************************)
EXTENDS Integers, Sequences, FiniteSets, TLC

----------------------------------------------------------------------------
(* Bounds of the model.                                                    *)

\* Handles of each resource kind other than shaders are 1..MaxHandle.
MaxHandle == 1
\* Shader handles are 1..MaxShader (a program takes one shader per stage).
MaxShader == 2
\* frame() is called at most MaxFrames times.
MaxFrames == 3
\* swap_chain_images_.size(), fixed by the surface when the swap chain is made.
NumImages == 2
\* A render queue holds at most MaxItems render items.
MaxItems == 2
\* Bytes of uniform data are 0..MaxByte.
MaxByte == 1
\* A command list holds at most MaxList commands.
MaxList == 3
\* descriptor_pool_ supplies at most PoolMaxSets descriptor sets (maxSets, which
\* the program sets to 10 << 10, scaled down so that the pool can run out).
PoolMaxSets == 3

(* Program constants.                                                      *)
kMaxFramesInFlight == 2

\* An empty std::optional handle, and the null vk::Fence handle.
NoHandle == 0
NoFence == -1

Handles == 1..MaxHandle
ShaderHandles == 1..MaxShader
Images == 0..(NumImages - 1)
Slots == 0..(kMaxFramesInFlight - 1)
\* Addresses of the nodes of an unordered_map: as many as it can hold.
Addrs == 1..MaxHandle
\* Addresses at which the application places the render items of a frame.
ItemAddrs == 1..MaxItems
Bytes == 0..MaxByte
\* The content of buffer memory that was never written.
Uninit == MaxByte + 1

VARIABLES
    \* ---- the process
    fatal,                    \* an assertion failed or an exception left a handler
    logger_,                  \* the set of messages logged so far
    last_cmd,                 \* the command processCommandList visited last
    \* ---- resource maps
    vertex_buffer_map_, index_buffer_map_, shader_map_, program_map_, texture_map_,
    gpu_buffers,              \* contents of the live uniform buffers, by buffer id
    \* ---- caches
    graphics_pipeline_cache_, descriptor_set_cache_,
    sets_allocated,           \* descriptor sets taken from descriptor_pool_
    pipeline_log, dset_log,   \* the cache resolutions of the frame recorded last, in order
    \* ---- application memory the cache keys point into
    item_mem,
    \* ---- frame synchronisation
    current_frame_, in_flight_fences_, images_in_flight_,
    gpu_pending,              \* submitted frames the GPU has not completed
    \* ---- the running frame() call
    pc, frame_arg, next_index, image_fence_waited, events, command_buffer,
    overrun,                  \* a uniform write ran past the end of its staging buffer
    frames_done,              \* completed frame() calls
    \* ---- the running processCommandList() call
    command_list,             \* its argument
    command_index,            \* how many of its commands the loop has reached
    \* ---- uploads through a staging buffer
    upload,                   \* staging allocations, the queue's single-use work
    \* ---- the presentation engine
    present_requests,         \* presentKHR requests it has not processed, oldest first
    \* ---- host access to uniform staging memory
    mapped_memory             \* the staging buffers mapped, and whether a map or unmap was invalid

procVars == <<fatal, logger_, last_cmd>>
regVars == <<vertex_buffer_map_, index_buffer_map_, shader_map_, program_map_,
             texture_map_>>
cacheVars == <<graphics_pipeline_cache_, descriptor_set_cache_, sets_allocated,
               pipeline_log, dset_log>>
syncVars == <<current_frame_, in_flight_fences_, images_in_flight_, gpu_pending>>
callVars == <<pc, frame_arg, next_index, image_fence_waited, events,
              command_buffer, overrun, frames_done>>
listVars == <<command_list, command_index>>
vars == <<procVars, regVars, gpu_buffers, cacheVars, item_mem, syncVars, callVars,
          listVars, upload, present_requests, mapped_memory>>

----------------------------------------------------------------------------
(* Maps keyed by handle (std::unordered_map).                              *)

EmptyMap == [x \in {} |-> 0]

\* emplace: inserts unless the key is present already.
Emplace(map, h, rec) ==
    IF h \in DOMAIN map THEN map
    ELSE [x \in (DOMAIN map) \cup {h} |-> IF x = h THEN rec ELSE map[x]]

\* operator[] followed by assignment.
Assign(map, h, rec) ==
    [x \in (DOMAIN map) \cup {h} |-> IF x = h THEN rec ELSE map[x]]

Erase(map, h) == [x \in (DOMAIN map) \ {h} |-> map[x]]

UsedAddrs(map) == {map[h].addr : h \in DOMAIN map}

\* What a build can do once an assert(...) that guards a handler is false:
\* abort (assertions on), or run on into undefined behaviour (NDEBUG), which
\* either crashes or goes unnoticed.
AssertOutcomes == {"abort", "unnoticed"}

Cmd(op, h) == [op |-> op, handle |-> h]

Idle == ~fatal /\ pc = "idle"
----------------------------------------------------------------------------
(* Seeded faults: variants of definitions below, used to show that the     *)
(* properties checked depend on them.                                      *)

\* frame() without the wait on the image's previous fence.
ImageFenceIgnored == TRUE

\* frame() without the wait on the slot's fence.
SlotFenceIgnored == TRUE

\* A slot index that never advances.
NextSlotStuck(s) == s

\* The fence reset after the submit instead of before it.
SubmitBeforeReset(slot, image) ==
    << <<"Submit", slot, slot, slot, image>>,
       <<"ResetFence", slot>>,
       <<"Present", slot, image>>,
       <<"Advance">> >>

\* A descriptor-set cache whose find never hits.
FindDescriptorSetMisses(cache, info) == 0

\* A loop that walks the command list from its back.
CommandAtReversed(list, i) == list[Len(list) + 1 - i]

\* A render pass begun without clear values.
NoClearValues(q) == <<>>

\* An item loop that leaves the device buffers as they are.
CopyUniformsSkipped(st, ubos, image) == st

\* A merge in which the last stage to declare a binding decides its type.
MergeStageLastWins(map, stage, shader) ==
    [b \in (DOMAIN map) \cup (DOMAIN shader.descriptor_type_bindings) |->
        IF b \in DOMAIN shader.descriptor_type_bindings
        THEN [binding |-> b,
              descriptorType |-> shader.descriptor_type_bindings[b],
              stageFlags |-> {stage}]
        ELSE map[b]]

----------------------------------------------------------------------------
(* Shader binaries and what reflection (spirv_cross) reports for them.     *)

Stages == {"Vertex", "Geometry", "Fragment"}

Field(n, off, sz) == [name |-> n, offset |-> off, size |-> sz]
Block(b, n, sz, fs) == [binding |-> b, name |-> n, size |-> sz, fields |-> fs]

\* c.data of CreateShader, by id: 1 is a vertex shader with block u at binding
\* 0, 2 a fragment shader with block l at binding 1 (as cube_solid.frag), 3 a
\* fragment shader with a combined image sampler at binding 0, 4 a fragment
\* shader without resources.
ShaderBinaries ==
    <<[stage |-> "Vertex",
       uniform_buffers |-> <<Block(0, "u", 2, <<Field("a", 0, 1), Field("b", 1, 1)>>)>>,
       sampled_images |-> <<>>],
      [stage |-> "Fragment",
       uniform_buffers |-> <<Block(1, "l", 1, <<Field("d", 0, 1)>>)>>,
       sampled_images |-> <<>>],
      [stage |-> "Fragment",
       uniform_buffers |-> <<>>,
       sampled_images |-> <<0>>],
      [stage |-> "Fragment",
       uniform_buffers |-> <<>>,
       sampled_images |-> <<>>]>>

BinaryIds == DOMAIN ShaderBinaries

\* The index of the first resource of the list declared at binding b.
FirstAt(blocks, b) ==
    CHOOSE i \in DOMAIN blocks :
        /\ blocks[i].binding = b
        /\ \A j \in DOMAIN blocks : blocks[j].binding = b => i <= j

\* shader.uniform_buffer_bindings: emplace keeps the first block of a binding.
ReflectUniformBuffers(bin) ==
    LET bs == {bin.uniform_buffers[i].binding : i \in DOMAIN bin.uniform_buffers}
    IN  [b \in bs |->
            LET blk == bin.uniform_buffers[FirstAt(bin.uniform_buffers, b)]
            IN  [name |-> blk.name, size |-> blk.size, fields |-> blk.fields]]

\* shader.descriptor_type_bindings: uniform buffers are emplaced first, then
\* the sampled images.
ReflectDescriptorTypes(bin) ==
    LET ubs == {bin.uniform_buffers[i].binding : i \in DOMAIN bin.uniform_buffers}
        ims == {bin.sampled_images[i] : i \in DOMAIN bin.sampled_images}
    IN  [b \in ubs \cup ims |->
            IF b \in ubs THEN "UniformBuffer" ELSE "CombinedImageSampler"]

ShaderVK(id) ==
    [stage |-> ShaderBinaries[id].stage,
     module |-> id,
     descriptor_type_bindings |-> ReflectDescriptorTypes(ShaderBinaries[id]),
     uniform_buffer_bindings |-> ReflectUniformBuffers(ShaderBinaries[id])]

\* ProgramVK{} as CreateProgram emplaces it, in the map node at address a.
ProgramVK(a) ==
    [addr |-> a,
     stages |-> EmptyMap,
     pipeline_stages |-> <<>>,
     layout_bindings |-> <<>>,
     descriptor_set_layout |-> FALSE,
     uniform_buffers |-> <<>>,
     uniform_locations |-> EmptyMap]

----------------------------------------------------------------------------
(* GPU buffers.                                                            *)

\* The ascending sequence of a finite set of integers.
RECURSIVE SortedSeq(_)
SortedSeq(S) ==
    IF S = {} THEN <<>>
    ELSE LET m == CHOOSE x \in S : \A y \in S : x <= y
         IN  <<m>> \o SortedSeq(S \ {m})

\* n buffer ids that are not live in mem, lowest first.
FreshIds(mem, n) ==
    LET live == DOMAIN mem
        cand == (1..(Cardinality(live) + n)) \ live
    IN  SubSeq(SortedSeq(cand), 1, n)

\* createBuffer: new memory of the given size, never written.
WithBuffers(mem, ids, size) ==
    [x \in (DOMAIN mem) \cup {ids[i] : i \in DOMAIN ids} |->
        IF x \in DOMAIN mem THEN mem[x] ELSE [k \in 1..size |-> Uninit]]

----------------------------------------------------------------------------
(* Uploads through a staging buffer.  upload holds the staging allocations *)
(* that are live, the staging buffers read by single-use command buffers   *)
(* that were submitted and are not known to have completed, whether a      *)
(* staging allocation was freed or read by a submission when the other     *)
(* made that invalid, and the device calls of the Create command that ran  *)
(* last.                                                                   *)

NoBuffer == 0

NoUpload == [staging |-> {}, queue |-> {}, freed_in_use |-> FALSE, calls |-> <<>>]

DeviceCall(call, buffer) == [call |-> call, buffer |-> buffer]

\* The staging buffer the next createBuffer returns.
FreshStaging(up) ==
    CHOOSE n \in 1..(Cardinality(up.staging) + 1) :
        /\ n \notin up.staging
        /\ \A m \in 1..(n - 1) : m \in up.staging

\* createBuffer(size, eTransferSrc, host visible, staging_buffer, ...).
createBuffer(up, id) ==
    [up EXCEPT !.staging = @ \cup {id},
               !.calls = Append(@, DeviceCall("createBuffer", id))]

\* mapMemory, memcpy, unmapMemory.
MappedCopy(up, id) ==
    [up EXCEPT !.calls = Append(@, DeviceCall("memcpy", id))]

\* createBuffer(size, eTransferDst | ..., device local, ...), or createImage,
\* allocateMemory and bindImageMemory: no staging allocation is made.
createDeviceLocal(up) ==
    [up EXCEPT !.calls = Append(@, DeviceCall("createDeviceLocal", NoBuffer))]

\* graphics_queue_.submit of a command buffer that reads src (NoBuffer: none).
QueueSubmit(up, src) ==
    [up EXCEPT !.queue = @ \cup {src},
               !.freed_in_use = @ \/ (src # NoBuffer /\ src \notin up.staging),
               !.calls = Append(@, DeviceCall("submit", src))]

\* graphics_queue_.waitIdle(): everything submitted has completed.
QueueWaitIdle(up) ==
    [up EXCEPT !.queue = {},
               !.calls = Append(@, DeviceCall("waitIdle", NoBuffer))]

\* An endSingleUseCommands that returns without waiting for the queue.
endSingleUseCommandsNoWait(up, src) == QueueSubmit(up, src)

\* end; submit; waitIdle; freeCommandBuffers.
endSingleUseCommands(up, src) == QueueWaitIdle(QueueSubmit(up, src))

copyBuffer(up, src) == endSingleUseCommands(up, src)

copyBufferToImage(up, src) == endSingleUseCommands(up, src)

\* Only a pipeline barrier is recorded: no buffer is read.
transitionImageLayout(up) == endSingleUseCommands(up, NoBuffer)

\* device_.destroy(staging_buffer); device_.free(staging_buffer_memory).
FreeStaging(up, id) ==
    [up EXCEPT !.staging = @ \ {id},
               !.freed_in_use = @ \/ id \in up.queue,
               !.calls = Append(@, DeviceCall("free", id))]

\* The handler starts: staging buffer created and filled.
Staged(up) ==
    LET id == FreshStaging(up)
    IN  MappedCopy(createBuffer([up EXCEPT !.calls = <<>>], id), id)

StagingOf(up) == up.calls[1].buffer

\* The device calls of CreateVertexBuffer and of CreateIndexBuffer.
UploadedBuffer(up) ==
    LET s == Staged(up)
    IN  FreeStaging(copyBuffer(createDeviceLocal(s), StagingOf(s)), StagingOf(s))

\* The device calls of CreateTexture2D.
UploadedTexture(up) ==
    LET s == Staged(up)
        t == transitionImageLayout(createDeviceLocal(s))
        c == transitionImageLayout(copyBufferToImage(t, StagingOf(s)))
    IN  FreeStaging(c, StagingOf(s))

\* The queue went idle during the handler.
QueueIdled(up) == \E i \in DOMAIN up.calls : up.calls[i].call = "waitIdle"

\* Frames submitted earlier are on the same queue: once it went idle they
\* have completed and signalled their fences.
FencesAfter(up) ==
    IF QueueIdled(up)
    THEN [s \in Slots |-> in_flight_fences_[s] \/ \E j \in gpu_pending : j.slot = s]
    ELSE in_flight_fences_

PendingAfter(up) == IF QueueIdled(up) THEN {} ELSE gpu_pending

----------------------------------------------------------------------------
(* The command handlers (RenderContextVK::operator()), one action each.    *)
(* processCommandList visits the commands of a list one after another on   *)
(* the render thread, outside frame().                                     *)

\* a is the address of the node emplace allocates; the node is dropped again
\* when the handle is registered already.
CreateVertexBuffer(h, a) ==
    /\ Idle
    /\ h \in DOMAIN vertex_buffer_map_ \/ a \notin UsedAddrs(vertex_buffer_map_)
    /\ upload' = UploadedBuffer(upload)
    /\ in_flight_fences_' = FencesAfter(upload')
    /\ gpu_pending' = PendingAfter(upload')
    /\ UNCHANGED present_requests
    /\ UNCHANGED mapped_memory
    /\ vertex_buffer_map_' = Emplace(vertex_buffer_map_, h, [addr |-> a])
    /\ last_cmd' = Cmd("CreateVertexBuffer", h)
    /\ UNCHANGED <<fatal, logger_, index_buffer_map_, shader_map_, program_map_,
                   texture_map_, gpu_buffers, cacheVars, item_mem, current_frame_,
                   images_in_flight_, callVars>>
    /\ UNCHANGED listVars

\* An UpdateVertexBuffer that asserts the handle is registered, as the Delete
\* handlers do.
UpdateVertexBufferAsserting(h) ==
    /\ Idle
    /\ fatal' = (h \notin DOMAIN vertex_buffer_map_)
    /\ last_cmd' = Cmd("UpdateVertexBuffer", h)
    /\ UNCHANGED <<logger_, regVars, gpu_buffers, cacheVars, item_mem,
                   syncVars, callVars>>
    /\ UNCHANGED listVars
    /\ UNCHANGED upload
    /\ UNCHANGED present_requests
    /\ UNCHANGED mapped_memory

UpdateVertexBuffer(h) ==
    /\ Idle
    /\ last_cmd' = Cmd("UpdateVertexBuffer", h)
    /\ UNCHANGED <<fatal, logger_, regVars, gpu_buffers, cacheVars, item_mem,
                   syncVars, callVars>>
    /\ UNCHANGED listVars
    /\ UNCHANGED upload
    /\ UNCHANGED present_requests
    /\ UNCHANGED mapped_memory

\* assert(count > 0); find; free; destroy; erase(it).
DeleteVertexBuffer(h, o) ==
    /\ Idle
    /\ IF h \in DOMAIN vertex_buffer_map_
       THEN /\ vertex_buffer_map_' = Erase(vertex_buffer_map_, h)
            /\ fatal' = FALSE
       ELSE /\ vertex_buffer_map_' = vertex_buffer_map_
            /\ fatal' = (o = "abort")
    /\ last_cmd' = Cmd("DeleteVertexBuffer", h)
    /\ UNCHANGED <<logger_, index_buffer_map_, shader_map_, program_map_,
                   texture_map_, gpu_buffers, cacheVars, item_mem, syncVars, callVars>>
    /\ UNCHANGED listVars
    /\ UNCHANGED upload
    /\ UNCHANGED present_requests
    /\ UNCHANGED mapped_memory

CreateIndexBuffer(h, t) ==
    /\ Idle
    /\ upload' = UploadedBuffer(upload)
    /\ in_flight_fences_' = FencesAfter(upload')
    /\ gpu_pending' = PendingAfter(upload')
    /\ UNCHANGED present_requests
    /\ UNCHANGED mapped_memory
    /\ index_buffer_map_' = Emplace(index_buffer_map_, h, [type |-> t])
    /\ last_cmd' = Cmd("CreateIndexBuffer", h)
    /\ UNCHANGED <<fatal, logger_, vertex_buffer_map_, shader_map_, program_map_,
                   texture_map_, gpu_buffers, cacheVars, item_mem, current_frame_,
                   images_in_flight_, callVars>>
    /\ UNCHANGED listVars

UpdateIndexBuffer(h) ==
    /\ Idle
    /\ last_cmd' = Cmd("UpdateIndexBuffer", h)
    /\ UNCHANGED <<fatal, logger_, regVars, gpu_buffers, cacheVars, item_mem,
                   syncVars, callVars>>
    /\ UNCHANGED listVars
    /\ UNCHANGED upload
    /\ UNCHANGED present_requests
    /\ UNCHANGED mapped_memory

DeleteIndexBuffer(h, o) ==
    /\ Idle
    /\ IF h \in DOMAIN index_buffer_map_
       THEN /\ index_buffer_map_' = Erase(index_buffer_map_, h)
            /\ fatal' = FALSE
       ELSE /\ index_buffer_map_' = index_buffer_map_
            /\ fatal' = (o = "abort")
    /\ last_cmd' = Cmd("DeleteIndexBuffer", h)
    /\ UNCHANGED <<logger_, vertex_buffer_map_, shader_map_, program_map_,
                   texture_map_, gpu_buffers, cacheVars, item_mem, syncVars, callVars>>
    /\ UNCHANGED listVars
    /\ UNCHANGED upload
    /\ UNCHANGED present_requests
    /\ UNCHANGED mapped_memory

CreateShader(h, id) ==
    /\ Idle
    /\ shader_map_' = Emplace(shader_map_, h, ShaderVK(id))
    /\ last_cmd' = Cmd("CreateShader", h)
    /\ UNCHANGED <<fatal, logger_, vertex_buffer_map_, index_buffer_map_, program_map_,
                   texture_map_, gpu_buffers, cacheVars, item_mem, syncVars, callVars>>
    /\ UNCHANGED listVars
    /\ UNCHANGED upload
    /\ UNCHANGED present_requests
    /\ UNCHANGED mapped_memory

\* assert(count > 0); shader_map_.at(handle) throws when the assertion is off.
DeleteShader(h) ==
    /\ Idle
    /\ IF h \in DOMAIN shader_map_
       THEN /\ shader_map_' = Erase(shader_map_, h)
            /\ fatal' = FALSE
       ELSE /\ shader_map_' = shader_map_
            /\ fatal' = TRUE
    /\ last_cmd' = Cmd("DeleteShader", h)
    /\ UNCHANGED <<logger_, vertex_buffer_map_, index_buffer_map_, program_map_,
                   texture_map_, gpu_buffers, cacheVars, item_mem, syncVars, callVars>>
    /\ UNCHANGED listVars
    /\ UNCHANGED upload
    /\ UNCHANGED present_requests
    /\ UNCHANGED mapped_memory

CreateProgram(h, a) ==
    /\ Idle
    /\ h \in DOMAIN program_map_ \/ a \notin UsedAddrs(program_map_)
    /\ program_map_' = Emplace(program_map_, h, ProgramVK(a))
    /\ last_cmd' = Cmd("CreateProgram", h)
    /\ UNCHANGED <<fatal, logger_, vertex_buffer_map_, index_buffer_map_, shader_map_,
                   texture_map_, gpu_buffers, cacheVars, item_mem, syncVars, callVars>>
    /\ UNCHANGED listVars
    /\ UNCHANGED upload
    /\ UNCHANGED present_requests
    /\ UNCHANGED mapped_memory

\* A DeleteProgram that also drops the cached descriptor sets.
DeleteProgramEvicting(h) ==
    /\ Idle
    /\ program_map_' = Erase(program_map_, h)
    /\ descriptor_set_cache_' = <<>>
    /\ last_cmd' = Cmd("DeleteProgram", h)
    /\ UNCHANGED <<fatal, logger_, vertex_buffer_map_, index_buffer_map_, shader_map_,
                   texture_map_, gpu_buffers, graphics_pipeline_cache_, sets_allocated,
                   pipeline_log, dset_log, item_mem, syncVars, callVars>>
    /\ UNCHANGED listVars
    /\ UNCHANGED upload
    /\ UNCHANGED present_requests
    /\ UNCHANGED mapped_memory

\* program_map_.erase(handle): erasing by key is silent when the key is absent.
DeleteProgram(h) ==
    /\ Idle
    /\ program_map_' = Erase(program_map_, h)
    /\ last_cmd' = Cmd("DeleteProgram", h)
    /\ UNCHANGED <<fatal, logger_, vertex_buffer_map_, index_buffer_map_, shader_map_,
                   texture_map_, gpu_buffers, cacheVars, item_mem, syncVars, callVars>>
    /\ UNCHANGED listVars
    /\ UNCHANGED upload
    /\ UNCHANGED present_requests
    /\ UNCHANGED mapped_memory

CreateTexture2D(h) ==
    /\ Idle
    /\ upload' = UploadedTexture(upload)
    /\ in_flight_fences_' = FencesAfter(upload')
    /\ gpu_pending' = PendingAfter(upload')
    /\ UNCHANGED present_requests
    /\ UNCHANGED mapped_memory
    /\ texture_map_' = Emplace(texture_map_, h, [image |-> TRUE])
    /\ last_cmd' = Cmd("CreateTexture2D", h)
    /\ UNCHANGED <<fatal, logger_, vertex_buffer_map_, index_buffer_map_, shader_map_,
                   program_map_, gpu_buffers, cacheVars, item_mem, current_frame_,
                   images_in_flight_, callVars>>
    /\ UNCHANGED listVars

\* The three handlers with an empty body.
DeleteTexture(h) ==
    /\ Idle
    /\ last_cmd' = Cmd("DeleteTexture", h)
    /\ UNCHANGED <<fatal, logger_, regVars, gpu_buffers, cacheVars, item_mem,
                   syncVars, callVars>>
    /\ UNCHANGED listVars
    /\ UNCHANGED upload
    /\ UNCHANGED present_requests
    /\ UNCHANGED mapped_memory

CreateFrameBuffer(h) ==
    /\ Idle
    /\ last_cmd' = Cmd("CreateFrameBuffer", h)
    /\ UNCHANGED <<fatal, logger_, regVars, gpu_buffers, cacheVars, item_mem,
                   syncVars, callVars>>
    /\ UNCHANGED listVars
    /\ UNCHANGED upload
    /\ UNCHANGED present_requests
    /\ UNCHANGED mapped_memory

DeleteFrameBuffer(h) ==
    /\ Idle
    /\ last_cmd' = Cmd("DeleteFrameBuffer", h)
    /\ UNCHANGED <<fatal, logger_, regVars, gpu_buffers, cacheVars, item_mem,
                   syncVars, callVars>>
    /\ UNCHANGED listVars
    /\ UNCHANGED upload
    /\ UNCHANGED present_requests
    /\ UNCHANGED mapped_memory

\* program.stages[stage] = shader; program.pipeline_stages.push_back(stage_info).
AttachedProgram(program, shader) ==
    [program EXCEPT
        !.stages = Assign(@, shader.stage, shader),
        !.pipeline_stages = Append(@, [stage |-> shader.stage, module |-> shader.module])]

AttachShader(h, s) ==
    /\ Idle
    /\ IF h \in DOMAIN program_map_ /\ s \in DOMAIN shader_map_
       THEN /\ program_map_' =
                   [program_map_ EXCEPT ![h] = AttachedProgram(@, shader_map_[s])]
            /\ fatal' = FALSE
       ELSE /\ program_map_' = program_map_
            /\ fatal' = TRUE
    /\ last_cmd' = Cmd("AttachShader", h)
    /\ UNCHANGED <<logger_, vertex_buffer_map_, index_buffer_map_, shader_map_,
                   texture_map_, gpu_buffers, cacheVars, item_mem, syncVars, callVars>>
    /\ UNCHANGED listVars
    /\ UNCHANGED upload
    /\ UNCHANGED present_requests
    /\ UNCHANGED mapped_memory

\* The orders in which a range-for can visit the keys S of an unordered_map.
Orders(S) ==
    {o \in [1..Cardinality(S) -> S] : \A i, j \in DOMAIN o : o[i] = o[j] => i = j}

\* One stage merged into descriptor_bindings_map: a binding bound already to
\* another descriptor type is reported and skipped, one bound to the same type
\* gains the stage flag, a new one is emplaced.
MergeStage(map, stage, shader) ==
    LET dtb == shader.descriptor_type_bindings
    IN  [b \in (DOMAIN map) \cup (DOMAIN dtb) |->
            IF b \in DOMAIN map
            THEN IF b \in DOMAIN dtb /\ dtb[b] = map[b].descriptorType
                 THEN [map[b] EXCEPT !.stageFlags = @ \cup {stage}]
                 ELSE map[b]
            ELSE [binding |-> b, descriptorType |-> dtb[b], stageFlags |-> {stage}]]

\* logger_.error("Attempting to bind a descriptor of type {} to binding {} which
\* is already bound to descriptor type {}, ignoring."), with its three arguments.
BindingConflict(type, binding, bound) ==
    [level |-> "error", type |-> type, binding |-> binding, bound |-> bound]

\* The messages one stage adds while it is merged into the map.
StageConflicts(map, shader) ==
    {BindingConflict(shader.descriptor_type_bindings[b], b, map[b].descriptorType) :
        b \in {x \in (DOMAIN map) \cap (DOMAIN shader.descriptor_type_bindings) :
                  shader.descriptor_type_bindings[x] # map[x].descriptorType}}

RECURSIVE MergeDescriptorBindings(_, _, _)
MergeDescriptorBindings(stages, order, acc) ==
    IF order = <<>> THEN acc
    ELSE LET st == Head(order)
         IN  MergeDescriptorBindings(stages, Tail(order),
                [map |-> MergeStage(acc.map, st, stages[st]),
                 messages |-> acc.messages \cup StageConflicts(acc.map, stages[st])])

\* uniform_buffer_bindings.insert(begin, end) per stage: the first stage to
\* declare a binding keeps it.
RECURSIVE MergeUniformBuffers(_, _, _)
MergeUniformBuffers(stages, order, acc) ==
    IF order = <<>> THEN acc
    ELSE LET ubb == stages[Head(order)].uniform_buffer_bindings
         IN  MergeUniformBuffers(stages, Tail(order),
                [b \in (DOMAIN acc) \cup (DOMAIN ubb) |->
                    IF b \in DOMAIN acc THEN acc[b] ELSE ubb[b]])

\* uniform_locations.emplace(name + "." + field.name, {ubo_index, offset, size})
\* for the fields of one block, in order.
RECURSIVE WithFieldLocations(_, _, _, _)
WithFieldLocations(locs, block, fields, ubo_index) ==
    IF fields = <<>> THEN locs
    ELSE LET f == Head(fields)
         IN  WithFieldLocations(
                Emplace(locs, block.name \o "." \o f.name,
                        [ubo_index |-> ubo_index, offset |-> f.offset, size |-> f.size]),
                block, Tail(fields), ubo_index)

\* The loop over the merged uniform blocks, in binding order: a staging buffer
\* and one device buffer per swap chain image for each, then its fields.
RECURSIVE AllocateUniformBuffers(_, _, _)
AllocateUniformBuffers(st, blocks, bindings) ==
    IF bindings = <<>> THEN st
    ELSE LET block == blocks[Head(bindings)]
             ids == FreshIds(st.mem, NumImages + 1)
             ubos == Append(st.program.uniform_buffers,
                            [buffers |-> ids, size |-> block.size])
         IN  AllocateUniformBuffers(
                [program |-> [st.program EXCEPT
                                !.uniform_buffers = ubos,
                                !.uniform_locations =
                                    WithFieldLocations(@, block, block.fields, Len(ubos) - 1)],
                 mem |-> WithBuffers(st.mem, ids, block.size)],
                blocks, Tail(bindings))

\* LinkProgram on a registered program, its stages visited in the given order.
LinkedProgram(program, order, mem) ==
    LET merged == MergeDescriptorBindings(program.stages, order,
                                          [map |-> EmptyMap, messages |-> {}])
        sorted == SortedSeq(DOMAIN merged.map)
        bound == [program EXCEPT
                    !.layout_bindings = @ \o [i \in DOMAIN sorted |-> merged.map[sorted[i]]],
                    !.descriptor_set_layout = TRUE]
        blocks == MergeUniformBuffers(program.stages, order, EmptyMap)
        done == AllocateUniformBuffers([program |-> bound, mem |-> mem], blocks,
                                       SortedSeq(DOMAIN blocks))
    IN  [program |-> done.program, mem |-> done.mem, messages |-> merged.messages]

LinkProgram(h, order) ==
    /\ Idle
    /\ IF h \in DOMAIN program_map_
       THEN /\ order \in Orders(DOMAIN program_map_[h].stages)
            /\ LET r == LinkedProgram(program_map_[h], order, gpu_buffers)
               IN  /\ program_map_' = [program_map_ EXCEPT ![h] = r.program]
                   /\ gpu_buffers' = r.mem
                   /\ logger_' = logger_ \cup r.messages
            /\ fatal' = FALSE
       ELSE /\ order = <<>>
            /\ fatal' = TRUE
            /\ UNCHANGED <<program_map_, gpu_buffers, logger_>>
    /\ last_cmd' = Cmd("LinkProgram", h)
    /\ UNCHANGED <<vertex_buffer_map_, index_buffer_map_, shader_map_,
                   texture_map_, cacheVars, item_mem, syncVars, callVars>>
    /\ UNCHANGED listVars
    /\ UNCHANGED upload
    /\ UNCHANGED present_requests
    /\ UNCHANGED mapped_memory

----------------------------------------------------------------------------
(* Frames (Frame -> RenderQueue -> RenderItem), as the application hands   *)
(* them to frame().  An optional is a sequence of length 0 or 1, except    *)
(* for optional handles, which are NoHandle when empty.  The uniforms of   *)
(* an item are listed in the order the range-for visits them.              *)

RenderItem(addr, program, vb, ib, primitive_count, colour_write, uniforms) ==
    [addr |-> addr, program |-> program, vb |-> vb, ib |-> ib,
     primitive_count |-> primitive_count, colour_write |-> colour_write,
     uniforms |-> uniforms]

RenderQueue(frame_buffer, clear_parameters, render_items) ==
    [frame_buffer |-> frame_buffer, clear_parameters |-> clear_parameters,
     render_items |-> render_items]

RECURSIVE ItemsOf(_)
ItemsOf(queues) ==
    IF queues = <<>> THEN <<>>
    ELSE Head(queues).render_items \o ItemsOf(Tail(queues))

\* Distinct render items of a frame live at distinct addresses.
WellFormedFrame(f) ==
    LET items == ItemsOf(f.render_queues)
    IN  \A i, j \in DOMAIN items : items[i].addr = items[j].addr => i = j

\* The colour_write flags a frame puts in memory: each item's at its address;
\* what other addresses hold (freed or reused storage of earlier frames) is
\* left open.
MemoryOf(f) ==
    LET items == ItemsOf(f.render_queues)
    IN  {m \in [ItemAddrs -> BOOLEAN] :
            \A i \in DOMAIN items : m[items[i].addr] = items[i].colour_write}

----------------------------------------------------------------------------
(* Uniform staging (frame(), "Update uniforms").                           *)

\* std::memcpy(base + offset, bytes, Len(bytes)) into mapped memory buf; what
\* falls past the end of buf is not part of buf.
WriteBytes(buf, offset, bytes) ==
    [k \in DOMAIN buf |->
        IF offset < k /\ k <= offset + Len(bytes) THEN bytes[k - offset] ELSE buf[k]]

\* No staging memory is mapped.
NoneMapped == [mapped |-> {}, invalid |-> FALSE]

\* device_.mapMemory(ubo.buffers_memory[0], 0, ubo.size) for every block of the
\* program; mapping memory that is mapped already is invalid.
RECURSIVE MapUniforms(_, _)
MapUniforms(st, ubos) ==
    IF ubos = <<>> THEN st
    ELSE LET staging == Head(ubos).buffers[1]
         IN  MapUniforms(
                [st EXCEPT !.mapped = @ \cup {staging},
                           !.map_invalid = @ \/ staging \in st.mapped],
                Tail(ubos))

\* device_.unmapMemory(ubo.buffers_memory[0]); unmapping memory that is not
\* mapped is invalid.
Unmapped(st, staging) ==
    [st EXCEPT !.mapped = @ \ {staging},
               !.map_invalid = @ \/ staging \notin st.mapped]

\* One pass of the loop over ri.uniforms: a name the program does not declare
\* is skipped; otherwise the value's bytes go to the staging buffer
\* (buffers[0]) of the field's block, at the field's offset.
RECURSIVE WriteUniforms(_, _, _)
WriteUniforms(st, program, uniforms) ==
    IF uniforms = <<>> THEN st
    ELSE LET u == Head(uniforms)
         IN  IF u.name \notin DOMAIN program.uniform_locations
             THEN WriteUniforms(st, program, Tail(uniforms))
             ELSE LET loc == program.uniform_locations[u.name]
                      ubo == program.uniform_buffers[loc.ubo_index + 1]
                      staging == ubo.buffers[1]
                  IN  WriteUniforms(
                        [st EXCEPT
                            !.mem[staging] = WriteBytes(@, loc.offset, u.value),
                            !.overrun = @ \/ loc.offset + Len(u.value) > ubo.size],
                        program, Tail(uniforms))

\* A copy that always goes to the device buffer of the first swap chain image.
RECURSIVE CopyUniformsFirstImage(_, _, _)
CopyUniformsFirstImage(st, ubos, image) ==
    IF ubos = <<>> THEN st
    ELSE LET ubo == Head(ubos)
         IN  CopyUniformsFirstImage(
                [Unmapped(st, ubo.buffers[1]) EXCEPT
                    !.mem[ubo.buffers[2]] = st.mem[ubo.buffers[1]],
                    !.copied = TRUE],
                Tail(ubos), image)

\* unmapMemory, then copyBuffer(ubo.buffers[0], ubo.buffers[1 + next_index],
\* ubo.size), for every block of the program.
RECURSIVE CopyUniforms(_, _, _)
CopyUniforms(st, ubos, image) ==
    IF ubos = <<>> THEN st
    ELSE LET ubo == Head(ubos)
         IN  CopyUniforms(
                [Unmapped(st, ubo.buffers[1]) EXCEPT
                    !.mem[ubo.buffers[image + 2]] = st.mem[ubo.buffers[1]],
                    !.copied = TRUE],
                Tail(ubos), image)

----------------------------------------------------------------------------
(* The state of a recording.                                               *)

\* The record state st carries what a frame's recording has produced so far.

Command(op, args) == [op |-> op, args |-> args]

Recorded(st, op, args) == [st EXCEPT !.cmds = Append(@, Command(op, args))]

Thrown(st) == [st EXCEPT !.fatal = TRUE]

----------------------------------------------------------------------------
(* The pipeline cache (findOrCreateGraphicsPipeline).                      *)

\* PipelineVK::Info{&ri, &vb, &program}: three pointers.
PipelineInfo(ri, vb, program) ==
    [render_item |-> ri.addr, vb |-> vb.addr, program |-> program.addr]

\* Equality of two PipelineVK::Info keys: the colour-write flag of the render
\* item each points at, the vertex buffer and the program.  mem is what the
\* render-item addresses hold when the keys are compared.
PipelineInfoEq(k1, k2, mem) ==
    /\ mem[k1.render_item] = mem[k2.render_item]
    /\ k1.vb = k2.vb
    /\ k1.program = k2.program

\* graphics_pipeline_cache_.find(info): the index of an entry whose key equals
\* info, 0 for end().  Were several stored keys to equal info, the container
\* may return any; pick names the one taken.
FindPipeline(cache, info, mem, pick) ==
    LET hits == {i \in DOMAIN cache : PipelineInfoEq(cache[i].key, info, mem)}
    IN  IF hits = {} THEN 0
        ELSE IF pick = "first" THEN CHOOSE i \in hits : \A j \in hits : i <= j
        ELSE CHOOSE i \in hits : \A j \in hits : j <= i

\* colour_blend_attachment.colorWriteMask, from info.render_item->colour_write.
ColourWriteMask(colour_write) == IF colour_write THEN {"R", "G", "B", "A"} ELSE {}

\* The pipeline built on a miss; its handle is new.
BuildPipeline(cache, info, program, mem) ==
    [pipeline |-> Len(cache) + 1,
     colorWriteMask |-> ColourWriteMask(mem[info.render_item]),
     stageCount |-> Len(program.pipeline_stages),
     setLayout |-> program.descriptor_set_layout]

\* The entry found at index at, or the one emplaced after a miss (at = 0).
PipelineAt(cache, at, info, program, mem) ==
    IF at # 0 THEN cache[at].value ELSE BuildPipeline(cache, info, program, mem)

\* A cache that holds the pipeline built last and no other.
PipelineResolvedEvicting(st, ri, info, at, value) ==
    [st EXCEPT
        !.pcache = IF at # 0 THEN @ ELSE <<[key |-> info, value |-> value]>>,
        !.pipeline = value,
        !.plog = Append(@, [colour_write |-> ri.colour_write, vb |-> ri.vb,
                            program |-> ri.program, render_item |-> ri.addr,
                            pipeline |-> value.pipeline,
                            colorWriteMask |-> value.colorWriteMask,
                            built |-> (at = 0)])]

PipelineResolved(st, ri, info, at, value) ==
    [st EXCEPT
        !.pcache = IF at # 0 THEN @ ELSE Append(@, [key |-> info, value |-> value]),
        !.pipeline = value,
        !.plog = Append(@, [colour_write |-> ri.colour_write, vb |-> ri.vb,
                            program |-> ri.program, render_item |-> ri.addr,
                            pipeline |-> value.pipeline,
                            colorWriteMask |-> value.colorWriteMask,
                            built |-> (at = 0)])]

PipelineLookedUp(st, ri, info, at, program, mem) ==
    PipelineResolved(st, ri, info, at, PipelineAt(st.pcache, at, info, program, mem))

\* findOrCreateGraphicsPipeline on the record state st; the pipeline returned
\* is st.pipeline, and the resolution is appended to st.plog.
ResolvePipeline(st, ri, vb, program, mem, pick) ==
    PipelineLookedUp(st, ri, PipelineInfo(ri, vb, program),
                     FindPipeline(st.pcache, PipelineInfo(ri, vb, program), mem, pick),
                     program, mem)

----------------------------------------------------------------------------
(* The descriptor-set cache (findOrCreateDescriptorSet).                   *)

\* DescriptorSetVK::Info{&program}.
DescriptorInfo(program) == [program |-> program.addr]

DescriptorInfoEq(k1, k2) == k1.program = k2.program

FindDescriptorSet(cache, info) ==
    LET hits == {i \in DOMAIN cache : DescriptorInfoEq(cache[i].key, info)}
    IN  IF hits = {} THEN 0 ELSE CHOOSE i \in hits : TRUE

\* uniform_buffers.at(binding.binding) throws std::out_of_range.
DescriptorWriteThrows(program) ==
    \E i \in DOMAIN program.layout_bindings :
        /\ program.layout_bindings[i].descriptorType = "UniformBuffer"
        /\ program.layout_bindings[i].binding >= Len(program.uniform_buffers)

\* The writes to the set of swap chain image i, one per layout binding: a
\* uniform buffer binding gets buffers[i + 1] of the block indexed by the
\* binding number; pImageInfo is reset to nullptr for every write.
DescriptorWrites(program, i) ==
    [k \in DOMAIN program.layout_bindings |->
        LET b == program.layout_bindings[k]
        IN  [dstBinding |-> b.binding,
             descriptorType |-> b.descriptorType,
             buffer |-> IF b.descriptorType = "UniformBuffer"
                        THEN program.uniform_buffers[b.binding + 1].buffers[i + 2]
                        ELSE NoHandle,
             imageInfo |-> FALSE]]

\* The sets allocated on a miss, written for each swap chain image.
NewDescriptorSets(program, allocated) ==
    [i \in 1..NumImages |->
        [set |-> allocated + i, writes |-> DescriptorWrites(program, i - 1)]]

DescriptorSetResolved(st, ri, info, sets, hit) ==
    [st EXCEPT
        !.sets_allocated = IF hit THEN @ ELSE @ + NumImages,
        !.dcache = IF hit THEN @ ELSE Append(@, [key |-> info, value |-> sets]),
        !.descriptor_sets = sets,
        !.dlog = Append(@, [program |-> ri.program, descriptor_sets |-> sets,
                            allocated |-> IF hit THEN 0 ELSE NumImages])]

\* A pool that supplies sets without end.
DescriptorSetLookedUpUnbounded(st, ri, program, info, at) ==
    IF at # 0 THEN DescriptorSetResolved(st, ri, info, st.dcache[at].value, TRUE)
    ELSE DescriptorSetResolved(st, ri, info,
                               NewDescriptorSets(program, st.sets_allocated), FALSE)

\* A hit returns the cached group.  On a miss allocateDescriptorSets throws
\* when the pool cannot supply NumImages more sets; otherwise the sets are
\* written (which can throw as well) and the group is cached.
DescriptorSetLookedUp(st, ri, program, info, at) ==
    IF at # 0 THEN DescriptorSetResolved(st, ri, info, st.dcache[at].value, TRUE)
    ELSE IF st.sets_allocated + NumImages > PoolMaxSets THEN Thrown(st)
    ELSE IF DescriptorWriteThrows(program)
    THEN Thrown([st EXCEPT !.sets_allocated = @ + NumImages])
    ELSE DescriptorSetResolved(st, ri, info,
                               NewDescriptorSets(program, st.sets_allocated), FALSE)

\* findOrCreateDescriptorSet on the record state st; the group returned is
\* st.descriptor_sets.  On a miss NumImages sets are taken from the pool, then
\* written, then cached; an exception on the way leaves the cache as it was.
ResolveDescriptorSet(st, ri, program) ==
    DescriptorSetLookedUp(st, ri, program, DescriptorInfo(program),
                          FindDescriptorSet(st.dcache, DescriptorInfo(program)))

----------------------------------------------------------------------------
(* Recording a frame (frame(), from command_buffer.begin to end).          *)


\* An indexed draw recorded without looking the index buffer up.
RecordDrawUnchecked(st, ri) ==
    IF ri.ib = NoHandle
    THEN Recorded(Recorded(st, "bindVertexBuffers", <<ri.vb>>),
                  "draw", <<ri.primitive_count * 3>>)
    ELSE Recorded(Recorded(Recorded(st, "bindVertexBuffers", <<ri.vb>>),
                           "bindIndexBuffer", <<ri.ib>>),
                  "drawIndexed", <<ri.primitive_count * 3>>)

\* Draws of one vertex per primitive.
RecordDrawPerPrimitive(st, ri) ==
    IF ri.ib = NoHandle
    THEN Recorded(Recorded(st, "bindVertexBuffers", <<ri.vb>>),
                  "draw", <<ri.primitive_count>>)
    ELSE IF ri.ib \notin DOMAIN index_buffer_map_
    THEN Thrown(Recorded(st, "bindVertexBuffers", <<ri.vb>>))
    ELSE Recorded(Recorded(Recorded(st, "bindVertexBuffers", <<ri.vb>>),
                           "bindIndexBuffer", <<ri.ib>>),
                  "drawIndexed", <<ri.primitive_count>>)

\* bindVertexBuffers, then the indexed or the plain draw; index_buffer_map_.at
\* throws for an unregistered handle.
RecordDraw(st, ri) ==
    IF ri.ib = NoHandle
    THEN Recorded(Recorded(st, "bindVertexBuffers", <<ri.vb>>),
                  "draw", <<ri.primitive_count * 3>>)
    ELSE IF ri.ib \notin DOMAIN index_buffer_map_
    THEN Thrown(Recorded(st, "bindVertexBuffers", <<ri.vb>>))
    ELSE Recorded(Recorded(Recorded(st, "bindVertexBuffers", <<ri.vb>>),
                           "bindIndexBuffer", <<ri.ib>>),
                  "drawIndexed", <<ri.primitive_count * 3>>)

\* bindPipeline with the pipeline just resolved.
RecordBindPipeline(st) == Recorded(st, "bindPipeline", <<st.pipeline.pipeline>>)

\* bindDescriptorSets with the set of the acquired image, unless resolving the
\* sets threw.
RecordBindSets(st, ri, image) ==
    IF st.fatal THEN st
    ELSE RecordDraw(Recorded(st, "bindDescriptorSets",
                             <<st.descriptor_sets[image + 1].set>>), ri)

\* An item body that goes on to the vertex buffer look-up whether or not the
\* item has a vertex buffer.
RecordGeometryAlways(st, ri, program, image, mem, pick) ==
    IF ri.vb \notin DOMAIN vertex_buffer_map_ THEN Thrown(st)
    ELSE RecordBindSets(
            ResolveDescriptorSet(
                RecordBindPipeline(
                    ResolvePipeline(st, ri, vertex_buffer_map_[ri.vb], program, mem, pick)),
                ri, program),
            ri, image)

\* The part of the item body after the uniforms: nothing without a vertex
\* buffer; vertex_buffer_map_.at throws for an unregistered handle.
RecordGeometry(st, ri, program, image, mem, pick) ==
    IF ri.vb = NoHandle THEN st
    ELSE IF ri.vb \notin DOMAIN vertex_buffer_map_ THEN Thrown(st)
    ELSE RecordBindSets(
            ResolveDescriptorSet(
                RecordBindPipeline(
                    ResolvePipeline(st, ri, vertex_buffer_map_[ri.vb], program, mem, pick)),
                ri, program),
            ri, image)

\* An item body that is left, its staging memory mapped, when a uniform names
\* no field of the program.
RecordItemSkipping(st, ri, image, mem, pick) ==
    IF ri.program \notin DOMAIN program_map_ THEN Thrown(st)
    ELSE IF \E k \in DOMAIN ri.uniforms :
               ri.uniforms[k].name \notin DOMAIN program_map_[ri.program].uniform_locations
    THEN MapUniforms(st, program_map_[ri.program].uniform_buffers)
    ELSE RecordGeometry(
            CopyUniforms(
                WriteUniforms(MapUniforms(st, program_map_[ri.program].uniform_buffers),
                              program_map_[ri.program], ri.uniforms),
                program_map_[ri.program].uniform_buffers, image),
            ri, program_map_[ri.program], image, mem, pick)

\* The body of the loop over q.render_items for one item; an exception ends
\* the recording (st.fatal).  program_map_.at throws for an unregistered handle.
RecordItem(st, ri, image, mem, pick) ==
    IF ri.program \notin DOMAIN program_map_ THEN Thrown(st)
    ELSE RecordGeometry(
            CopyUniforms(
                WriteUniforms(MapUniforms(st, program_map_[ri.program].uniform_buffers),
                              program_map_[ri.program], ri.uniforms),
                program_map_[ri.program].uniform_buffers, image),
            ri, program_map_[ri.program], image, mem, pick)

RECURSIVE RecordItems(_, _, _, _, _)
RecordItems(st, items, image, mem, pick) ==
    IF items = <<>> \/ st.fatal THEN st
    ELSE RecordItems(RecordItem(st, Head(items), image, mem, pick),
                     Tail(items), image, mem, pick)

\* clear_values[0..clear_value_count) of a queue with clear parameters.
ClearValues(q) ==
    IF q.clear_parameters = <<>> THEN <<>>
    ELSE LET c == q.clear_parameters[1]
         IN  (IF c.clear_colour
              THEN <<[member |-> "color", value |-> c.colour]>> ELSE <<>>)
             \o (IF c.clear_depth
                 THEN <<[member |-> "depthStencil", value |-> <<0, 0>>]>> ELSE <<>>)

\* endRenderPass, unless an item threw.
RecordEndPass(st) == IF st.fatal THEN st ELSE Recorded(st, "endRenderPass", <<>>)

\* The body of the loop over frame->render_queues for one queue.
RecordQueue(st, q, image, mem, pick) ==
    IF q.frame_buffer # NoHandle THEN Thrown(st)
    ELSE RecordEndPass(
            RecordItems(Recorded(st, "beginRenderPass", <<image, ClearValues(q)>>),
                        q.render_items, image, mem, pick))

RECURSIVE RecordQueues(_, _, _, _, _)
RecordQueues(st, queues, image, mem, pick) ==
    IF queues = <<>> \/ st.fatal THEN st
    ELSE RecordQueues(RecordQueue(st, Head(queues), image, mem, pick),
                      Tail(queues), image, mem, pick)

\* The state a recording starts from.
RecordStart ==
    [fatal |-> FALSE, mem |-> gpu_buffers, overrun |-> overrun, copied |-> FALSE,
     pcache |-> graphics_pipeline_cache_, dcache |-> descriptor_set_cache_,
     sets_allocated |-> sets_allocated, plog |-> <<>>, dlog |-> <<>>,
     pipeline |-> <<>>, descriptor_sets |-> <<>>, cmds |-> <<>>,
     mapped |-> mapped_memory.mapped, map_invalid |-> mapped_memory.invalid]

----------------------------------------------------------------------------
(* frame(): the steps of one call, and the GPU beside it.                  *)

EmptyFrame == [render_queues |-> <<>>]

\* device_.waitForFences(in_flight_fences_[current_frame_], ...) returns.
SlotFenceSignaled == in_flight_fences_[current_frame_]

\* The wait on images_in_flight_[next_index], made only for a non-null fence.
ImageFenceSignaled ==
    IF images_in_flight_[next_index] = NoFence THEN TRUE
    ELSE in_flight_fences_[images_in_flight_[next_index]]

\* current_frame_ = (current_frame_ + 1) % kMaxFramesInFlight.
NextSlot(s) == (s + 1) % kMaxFramesInFlight

\* What frame() does from the submit on, in program order: reset the slot's
\* fence, submit (wait semaphore, signal semaphore, fence, command buffer),
\* present (wait semaphore, image index), advance the slot.
SubmitEvents(slot, image) ==
    << <<"ResetFence", slot>>,
       <<"Submit", slot, slot, slot, image>>,
       <<"Present", slot, image>>,
       <<"Advance">> >>

\* The call starts and its wait on the slot's fence returns.
FrameBegin(f, m) ==
    /\ Idle
    /\ frames_done < MaxFrames
    /\ WellFormedFrame(f)
    /\ m \in MemoryOf(f)
    /\ SlotFenceSignaled
    /\ pc' = "acquire"
    /\ frame_arg' = f
    /\ item_mem' = m
    /\ events' = << <<"Wait", current_frame_>> >>
    /\ command_buffer' = <<>>
    /\ UNCHANGED <<procVars, regVars, gpu_buffers, cacheVars, syncVars,
                   next_index, image_fence_waited, overrun, frames_done>>
    /\ UNCHANGED listVars
    /\ UNCHANGED upload
    /\ UNCHANGED present_requests
    /\ UNCHANGED mapped_memory

\* acquireNextImageKHR returns image i, to signal the slot's image-available
\* semaphore.
FrameAcquire(i) ==
    /\ ~fatal
    /\ pc = "acquire"
    /\ next_index' = i
    /\ pc' = "image_wait"
    /\ events' = Append(events, <<"Acquire", current_frame_, i>>)
    /\ UNCHANGED <<procVars, regVars, gpu_buffers, cacheVars, item_mem, syncVars,
                   frame_arg, image_fence_waited, command_buffer, overrun, frames_done>>
    /\ UNCHANGED listVars
    /\ UNCHANGED upload
    /\ UNCHANGED present_requests
    /\ UNCHANGED mapped_memory

\* A wait for the image's previous user that does not mark the image as used
\* by this slot's fence.
FrameImageWaitUnmarked ==
    /\ ~fatal
    /\ pc = "image_wait"
    /\ ImageFenceSignaled
    /\ image_fence_waited' = images_in_flight_[next_index]
    /\ pc' = "record"
    /\ UNCHANGED <<procVars, regVars, gpu_buffers, cacheVars, item_mem, syncVars,
                   frame_arg, next_index, events, command_buffer, overrun, frames_done>>
    /\ UNCHANGED listVars
    /\ UNCHANGED upload
    /\ UNCHANGED present_requests
    /\ UNCHANGED mapped_memory

\* The wait for the image's previous user, then the image is marked as used by
\* this slot's fence.
FrameImageWait ==
    /\ ~fatal
    /\ pc = "image_wait"
    /\ ImageFenceSignaled
    /\ image_fence_waited' = images_in_flight_[next_index]
    /\ images_in_flight_' = [images_in_flight_ EXCEPT ![next_index] = current_frame_]
    /\ pc' = "record"
    /\ UNCHANGED <<procVars, regVars, gpu_buffers, cacheVars, item_mem,
                   current_frame_, in_flight_fences_, gpu_pending,
                   frame_arg, next_index, events, command_buffer, overrun, frames_done>>
    /\ UNCHANGED listVars
    /\ UNCHANGED upload
    /\ UNCHANGED present_requests
    /\ UNCHANGED mapped_memory

\* The command buffer is recorded.  Each copyBuffer ends in
\* graphics_queue_.waitIdle(), so once one ran every submitted frame has
\* completed and signalled its fence.
FrameRecord(pick) ==
    /\ ~fatal
    /\ pc = "record"
    /\ LET st == RecordQueues(RecordStart, frame_arg.render_queues, next_index,
                              item_mem, pick)
       IN  /\ fatal' = st.fatal
           /\ pc' = IF st.fatal THEN "aborted" ELSE "submit"
           /\ gpu_buffers' = st.mem
           /\ overrun' = st.overrun
           /\ mapped_memory' = [mapped |-> st.mapped, invalid |-> st.map_invalid]
           /\ graphics_pipeline_cache_' = st.pcache
           /\ descriptor_set_cache_' = st.dcache
           /\ sets_allocated' = st.sets_allocated
           /\ pipeline_log' = st.plog
           /\ dset_log' = st.dlog
           /\ command_buffer' = st.cmds
           /\ gpu_pending' = IF st.copied THEN {} ELSE gpu_pending
           /\ in_flight_fences_' =
                 IF st.copied
                 THEN [s \in Slots |->
                         in_flight_fences_[s] \/ \E j \in gpu_pending : j.slot = s]
                 ELSE in_flight_fences_
    /\ events' = Append(events, <<"Record", next_index>>)
    /\ UNCHANGED <<logger_, last_cmd, regVars, item_mem, current_frame_,
                   images_in_flight_, frame_arg, next_index, image_fence_waited,
                   frames_done>>
    /\ UNCHANGED listVars
    /\ UNCHANGED upload
    /\ UNCHANGED present_requests

\* Reset the fence, submit, present, advance; the call returns.  The submit
\* waits on the slot's image-available semaphore and signals its
\* render-finished semaphore; the present request waits on the latter.
FrameSubmit ==
    /\ ~fatal
    /\ pc = "submit"
    /\ in_flight_fences_' = [in_flight_fences_ EXCEPT ![current_frame_] = FALSE]
    /\ gpu_pending' = gpu_pending \cup
           {[frame |-> frames_done, slot |-> current_frame_, image |-> next_index]}
    /\ events' = events \o SubmitEvents(current_frame_, next_index)
    /\ current_frame_' = NextSlot(current_frame_)
    /\ frames_done' = frames_done + 1
    /\ pc' = "idle"
    /\ frame_arg' = EmptyFrame
    /\ next_index' = 0
    /\ image_fence_waited' = NoFence
    /\ UNCHANGED <<procVars, regVars, gpu_buffers, cacheVars, item_mem,
                   images_in_flight_, command_buffer, overrun>>
    /\ UNCHANGED listVars
    /\ UNCHANGED upload
    /\ present_requests' =
           Append(present_requests,
                  [frame |-> frames_done, slot |-> current_frame_, image |-> next_index])
    /\ UNCHANGED mapped_memory

\* The GPU completes a submitted frame and signals the fence it was given.
GpuComplete(j) ==
    /\ ~fatal
    /\ j \in gpu_pending
    /\ gpu_pending' = gpu_pending \ {j}
    /\ in_flight_fences_' = [in_flight_fences_ EXCEPT ![j.slot] = TRUE]
    /\ UNCHANGED <<procVars, regVars, gpu_buffers, cacheVars, item_mem,
                   current_frame_, images_in_flight_, callVars>>
    /\ UNCHANGED listVars
    /\ UNCHANGED upload
    /\ UNCHANGED present_requests
    /\ UNCHANGED mapped_memory

\* The presentation engine processes its oldest request: the request's wait on
\* the render-finished semaphore is over once the frame's submit has completed
\* and signalled it, and the image goes back to the swap chain.
PresentProcessed ==
    /\ ~fatal
    /\ present_requests # <<>>
    /\ \A j \in gpu_pending : j.frame # Head(present_requests).frame
    /\ present_requests' = Tail(present_requests)
    /\ UNCHANGED <<procVars, regVars, gpu_buffers, cacheVars, item_mem, syncVars,
                   callVars>>
    /\ UNCHANGED listVars
    /\ UNCHANGED upload
    /\ UNCHANGED mapped_memory

----------------------------------------------------------------------------
(* The state after construction (createWindow has run: fences are created  *)
(* signalled, images_in_flight_ holds null fences, the maps are empty).     *)

Init ==
    /\ fatal = FALSE
    /\ logger_ = {}
    /\ last_cmd = Cmd("none", NoHandle)
    /\ vertex_buffer_map_ = EmptyMap
    /\ index_buffer_map_ = EmptyMap
    /\ shader_map_ = EmptyMap
    /\ program_map_ = EmptyMap
    /\ texture_map_ = EmptyMap
    /\ gpu_buffers = EmptyMap
    /\ graphics_pipeline_cache_ = <<>>
    /\ descriptor_set_cache_ = <<>>
    /\ sets_allocated = 0
    /\ pipeline_log = <<>>
    /\ dset_log = <<>>
    /\ item_mem = [a \in ItemAddrs |-> FALSE]
    /\ current_frame_ = 0
    /\ in_flight_fences_ = [s \in Slots |-> TRUE]
    /\ images_in_flight_ = [i \in Images |-> NoFence]
    /\ gpu_pending = {}
    /\ pc = "idle"
    /\ frame_arg = EmptyFrame
    /\ next_index = 0
    /\ image_fence_waited = NoFence
    /\ events = <<>>
    /\ command_buffer = <<>>
    /\ overrun = FALSE
    /\ frames_done = 0
    /\ command_list = <<>>
    /\ command_index = 0
    /\ upload = NoUpload
    /\ present_requests = <<>>
    /\ mapped_memory = NoneMapped

----------------------------------------------------------------------------
(* SpecSync: frame() called again and again on frames that draw nothing    *)
(* (no queue, an empty queue, or a queue that names a frame buffer, for    *)
(* which frame() throws), with the GPU completing submitted frames at any  *)
(* time and the swap chain handing out any image.                          *)

SyncFrames ==
    {EmptyFrame,
     [render_queues |-> <<RenderQueue(NoHandle, <<>>, <<>>)>>],
     [render_queues |-> <<RenderQueue(1, <<>>, <<>>)>>]}

NextSync ==
    \/ \E f \in SyncFrames : FrameBegin(f, item_mem)
    \/ \E i \in Images : FrameAcquire(i)
    \/ FrameImageWait
    \/ FrameRecord("first")
    \/ FrameSubmit
    \/ \E j \in gpu_pending : GpuComplete(j)

SpecSync == Init /\ [][NextSync]_vars

IsPrefix(s, t) == Len(s) <= Len(t) /\ SubSeq(t, 1, Len(s)) = s

InCall == pc \in {"acquire", "image_wait", "record", "submit"}

\* C1: once frame() is past its wait on the acquired image's fence (it is
\* recording or about to submit), no frame submitted earlier that targeted
\* the same swap chain image is still incomplete on the GPU, whatever images
\* were acquired and in whatever order the GPU completed frames.
C1_ImageNotReusedInFlight ==
    pc \in {"record", "submit"} => \A j \in gpu_pending : j.image # next_index

\* A frame reacquired an image a previous slot's fence was marked on, waited
\* for that fence, and records while another frame is still on the GPU.
C1_Witness ==
    /\ pc = "record"
    /\ image_fence_waited # NoFence
    /\ gpu_pending # {}

\* C7: the slot index is in 0..F-1 and after k completed frames equals
\* k mod F (so it starts at 0 and each completed frame moves it to
\* (slot + 1) mod F), whichever images were acquired.
C7_SlotIndexCycles ==
    /\ current_frame_ \in Slots
    /\ current_frame_ = frames_done % kMaxFramesInFlight

\* Three frames have completed after acquiring the same image each time.
C7_Witness ==
    /\ frames_done > kMaxFramesInFlight
    /\ current_frame_ = 1
    /\ \A i \in Images : images_in_flight_[i] # NoFence => i = 0

\* C8: after the Wait step of a frame on slot s no frame submitted on slot s
\* is incomplete, and at most F submitted frames are incomplete at any time.
C8_SlotFenceBoundsInFlight ==
    /\ InCall => \A j \in gpu_pending : j.slot # current_frame_
    /\ Cardinality(gpu_pending) <= kMaxFramesInFlight

\* A frame is past its Wait on a slot used before, while the frame submitted
\* on the other slot is still incomplete.
C8_Witness ==
    /\ pc = "acquire"
    /\ frames_done >= kMaxFramesInFlight
    /\ \E j \in gpu_pending : j.slot # current_frame_

----------------------------------------------------------------------------
(* SpecRegistry: command lists of create, update and delete commands of    *)
(* every handle kind, on any handles, in any order.  What a shader or an   *)
(* index buffer holds plays no part here: every shader is made from binary *)
(* 1 and every index buffer holds 16 bit indices.                          *)

NextRegistry ==
    \/ \E h \in Handles, a \in Addrs : CreateVertexBuffer(h, a)
    \/ \E h \in Handles : UpdateVertexBuffer(h)
    \/ \E h \in Handles, o \in AssertOutcomes : DeleteVertexBuffer(h, o)
    \/ \E h \in Handles : CreateIndexBuffer(h, "U16")
    \/ \E h \in Handles : UpdateIndexBuffer(h)
    \/ \E h \in Handles, o \in AssertOutcomes : DeleteIndexBuffer(h, o)
    \/ \E h \in Handles : CreateShader(h, 1)
    \/ \E h \in Handles : DeleteShader(h)
    \/ \E h \in Handles, a \in Addrs : CreateProgram(h, a)
    \/ \E h \in Handles : DeleteProgram(h)
    \/ \E h \in Handles : CreateTexture2D(h)
    \/ \E h \in Handles : DeleteTexture(h)
    \/ \E h \in Handles : CreateFrameBuffer(h)
    \/ \E h \in Handles : DeleteFrameBuffer(h)

SpecRegistry == Init /\ [][NextRegistry]_vars

\* The handles registered for the kind a command is about; no handler keeps
\* a registry of frame buffers.
RegistryOf(op) ==
    CASE op \in {"CreateVertexBuffer", "UpdateVertexBuffer", "DeleteVertexBuffer"} ->
            DOMAIN vertex_buffer_map_
      [] op \in {"CreateIndexBuffer", "UpdateIndexBuffer", "DeleteIndexBuffer"} ->
            DOMAIN index_buffer_map_
      [] op \in {"CreateShader", "DeleteShader"} -> DOMAIN shader_map_
      [] op \in {"CreateProgram", "DeleteProgram"} -> DOMAIN program_map_
      [] op \in {"CreateTexture2D", "DeleteTexture"} -> DOMAIN texture_map_
      [] OTHER -> {}

DeleteOps == {"DeleteVertexBuffer", "DeleteIndexBuffer", "DeleteShader",
              "DeleteProgram", "DeleteTexture", "DeleteFrameBuffer"}

\* C2: for every handle kind, once a Delete(h) command has returned, h is not
\* in the registry of its kind (in particular after Create(h), Delete(h)).
C2_DeleteRemovesHandle ==
    (~fatal /\ last_cmd.op \in DeleteOps) =>
        last_cmd.handle \notin RegistryOf(last_cmd.op)

\* C3: for every handle kind, a Delete command visited while its handle is
\* not in the registry of its kind ends in a fatal error.
C3_DeleteMissingIsFatal ==
    [][(last_cmd'.op \in DeleteOps /\ last_cmd'.handle \notin RegistryOf(last_cmd'.op))
          => fatal']_vars

----------------------------------------------------------------------------
(* The set-up shared by the rendering specifications, made before the      *)
(* first frame in the order the examples make it: one vertex buffer, a     *)
(* vertex shader (binary 1), and one program with that shader attached and *)
(* linked once.                                                            *)

SetUp ==
    /\ frames_done = 0
    /\ CASE last_cmd.op = "none" -> CreateVertexBuffer(1, 1)
         [] last_cmd.op = "CreateVertexBuffer" -> CreateShader(1, 1)
         [] last_cmd.op = "CreateShader" -> CreateProgram(1, 1)
         [] last_cmd.op = "CreateProgram" -> AttachShader(1, 1)
         [] last_cmd.op = "AttachShader" -> LinkProgram(1, <<"Vertex">>)
         [] OTHER -> FALSE

\* The set-up is complete.
Ready == last_cmd.op = "LinkProgram"

\* The swap chain hands its images out in turn.
AcquireInTurn == FrameAcquire(frames_done % NumImages)

\* All sequences of 1..n elements of S.
SeqsUpTo(S, n) == UNION {[1..k -> S] : k \in 1..n}

----------------------------------------------------------------------------
(* SpecCache: after the set-up, frames of one queue whose items draw the   *)
(* vertex buffer with the program, each item at an address of its own and  *)
(* with colour writes on or off.  What the application's memory holds at   *)
(* the addresses a frame does not use is left open.                        *)

CacheItems ==
    {RenderItem(a, 1, 1, NoHandle, 1, cw, <<>>) : a \in ItemAddrs, cw \in BOOLEAN}

CacheFrames ==
    {f \in {[render_queues |-> <<RenderQueue(NoHandle, <<>>, items)>>] :
                items \in SeqsUpTo(CacheItems, MaxItems)} : WellFormedFrame(f)}

NextCache ==
    \/ SetUp
    \/ \E f \in CacheFrames : \E m \in MemoryOf(f) : Ready /\ FrameBegin(f, m)
    \/ AcquireInTurn
    \/ FrameImageWait
    \/ \E pick \in {"first", "last"} : FrameRecord(pick)
    \/ FrameSubmit
    \/ \E j \in gpu_pending : GpuComplete(j)

SpecCache == Init /\ [][NextCache]_vars

\* C4 (as claimed): no second pipeline is built for a (colour-write flag,
\* vertex buffer, program) triple that a cached pipeline was built for before,
\* whichever render items and frames the resolutions come from.
C4_OnePipelinePerTriple ==
    \A i, j \in DOMAIN graphics_pipeline_cache_ :
        (/\ graphics_pipeline_cache_[i].value.colorWriteMask =
                graphics_pipeline_cache_[j].value.colorWriteMask
         /\ graphics_pipeline_cache_[i].key.vb = graphics_pipeline_cache_[j].key.vb
         /\ graphics_pipeline_cache_[i].key.program = graphics_pipeline_cache_[j].key.program)
        => i = j

\* C5 (as claimed): every resolution returns a pipeline built with the colour
\* write mask of its own item's flag (full for colour_write, none otherwise),
\* so that resolutions differing only in the flag never share a cache entry.
C5_MaskFollowsFlag ==
    \A k \in DOMAIN pipeline_log :
        pipeline_log[k].colorWriteMask = ColourWriteMask(pipeline_log[k].colour_write)

----------------------------------------------------------------------------
(* SpecDescriptor: after the set-up, frames of 1..MaxItems items that all  *)
(* draw the vertex buffer with the program, colour writes on, item k of a  *)
(* frame at address k; the swap chain hands out any image.                 *)

DescriptorFrames ==
    {[render_queues |->
        <<RenderQueue(NoHandle, <<>>,
                      [k \in 1..n |-> RenderItem(k, 1, 1, NoHandle, 1, TRUE, <<>>)])>>] :
        n \in 1..MaxItems}

NextDescriptor ==
    \/ SetUp
    \/ \E f \in DescriptorFrames : Ready /\ FrameBegin(f, [a \in ItemAddrs |-> TRUE])
    \/ \E i \in Images : FrameAcquire(i)
    \/ FrameImageWait
    \/ FrameRecord("first")
    \/ FrameSubmit
    \/ \E j \in gpu_pending : GpuComplete(j)

SpecDescriptor == Init /\ [][NextDescriptor]_vars

\* C6: the descriptor-set cache holds one set group per program; every
\* resolution returns (none fails) the group cached for its program, the same
\* for every resolution of that program, and only the first takes sets from
\* the pool: the sets taken are NumImages per cached group, and group k holds
\* the sets it was given when it was made.
C6_DescriptorSetsPerProgram ==
    /\ ~fatal
    /\ \A i, j \in DOMAIN descriptor_set_cache_ :
          descriptor_set_cache_[i].key = descriptor_set_cache_[j].key => i = j
    /\ sets_allocated = NumImages * Len(descriptor_set_cache_)
    /\ \A k \in DOMAIN descriptor_set_cache_ :
          \A i \in 1..NumImages :
             descriptor_set_cache_[k].value[i].set = (k - 1) * NumImages + i
    /\ \A k \in DOMAIN dset_log :
          /\ \E e \in DOMAIN descriptor_set_cache_ :
                /\ descriptor_set_cache_[e].key = DescriptorInfo(program_map_[dset_log[k].program])
                /\ descriptor_set_cache_[e].value = dset_log[k].descriptor_sets
          /\ \A l \in DOMAIN dset_log :
                (k < l /\ dset_log[k].program = dset_log[l].program) =>
                    /\ dset_log[l].descriptor_sets = dset_log[k].descriptor_sets
                    /\ dset_log[l].allocated = 0

\* A frame after the first resolved the sets of the program twice, both from
\* the cache.
C6_Witness ==
    /\ pc = "submit"
    /\ frames_done >= 1
    /\ Len(dset_log) = 2
    /\ dset_log[1].allocated = 0
    /\ sets_allocated = NumImages

----------------------------------------------------------------------------
(* SpecUniform: after the set-up, frames of one queue with one item that   *)
(* has no vertex buffer and sets one or both fields of block u ("u.a" and  *)
(* "u.b", one byte each), in either order, each to a value of one or two   *)
(* bytes (the application chooses the value's type).                       *)

UniformNames == {"u.a", "u.b"}

UniformValues == SeqsUpTo(Bytes, 2)

\* The uniform maps: each name at most once.
UniformMaps ==
    {us \in SeqsUpTo([name : UniformNames, value : UniformValues], 2) :
        \A i, j \in DOMAIN us : us[i].name = us[j].name => i = j}

UniformFrames ==
    {[render_queues |->
        <<RenderQueue(NoHandle, <<>>,
                      <<RenderItem(1, 1, NoHandle, NoHandle, 0, TRUE, us)>>)>>] :
        us \in UniformMaps}

NextUniform ==
    \/ SetUp
    \/ \E f \in UniformFrames : Ready /\ FrameBegin(f, [a \in ItemAddrs |-> TRUE])
    \/ AcquireInTurn
    \/ FrameImageWait
    \/ FrameRecord("first")
    \/ FrameSubmit
    \/ \E j \in gpu_pending : GpuComplete(j)

SpecUniform == Init /\ [][NextUniform]_vars

\* The bytes of the staging buffer of program at the (block, offset, size)
\* that LinkProgram recorded for the field called name.
StagedField(program, name) ==
    SubSeq(gpu_buffers[program.uniform_buffers[
                          program.uniform_locations[name].ubo_index + 1].buffers[1]],
           program.uniform_locations[name].offset + 1,
           program.uniform_locations[name].offset + program.uniform_locations[name].size)

\* C10 (as claimed): once a frame is recorded, each field its item wrote reads
\* back from the staging buffer, at the field's recorded place, as exactly
\* the bytes written.
C10_UniformReadBack ==
    pc = "submit" =>
        \A q \in DOMAIN frame_arg.render_queues :
            \A k \in DOMAIN frame_arg.render_queues[q].render_items :
                LET ri == frame_arg.render_queues[q].render_items[k]
                IN  \A u \in DOMAIN ri.uniforms :
                        ri.uniforms[u].name \in DOMAIN program_map_[ri.program].uniform_locations
                        => StagedField(program_map_[ri.program], ri.uniforms[u].name)
                               = ri.uniforms[u].value

----------------------------------------------------------------------------
(* SpecLink: shaders of every binary are created, attached to program 1    *)
(* and the program is linked once, its stages visited in any order; the    *)
(* program can be deleted and created again, and is linked again as long   *)
(* as no uniform buffer is live.                                           *)

Unlinked(h) == h \in DOMAIN program_map_ => ~program_map_[h].descriptor_set_layout

NextLink ==
    \/ \E s \in ShaderHandles : \E id \in BinaryIds :
            s \notin DOMAIN shader_map_ /\ CreateShader(s, id)
    \/ 1 \notin DOMAIN program_map_ /\ CreateProgram(1, 1)
    \/ \E s \in ShaderHandles :
            /\ Unlinked(1)
            /\ 1 \in DOMAIN program_map_ => Len(program_map_[1].pipeline_stages) < MaxShader
            /\ AttachShader(1, s)
    \/ \E order \in SeqsUpTo(Stages, 2) \cup {<<>>} :
            Unlinked(1) /\ gpu_buffers = EmptyMap /\ LinkProgram(1, order)
    \/ 1 \in DOMAIN program_map_ /\ DeleteProgram(1)

SpecLink == Init /\ [][NextLink]_vars

\* The bindings that two attached stages declare with different descriptor types.
ConflictingBindings(program) ==
    {b \in UNION {DOMAIN program.stages[st].descriptor_type_bindings :
                    st \in DOMAIN program.stages} :
        \E s1, s2 \in DOMAIN program.stages :
            /\ b \in DOMAIN program.stages[s1].descriptor_type_bindings
            /\ b \in DOMAIN program.stages[s2].descriptor_type_bindings
            /\ program.stages[s1].descriptor_type_bindings[b]
                   # program.stages[s2].descriptor_type_bindings[b]}

\* The entries of program.layout_bindings for binding b.
LayoutEntries(program, b) ==
    {i \in DOMAIN program.layout_bindings : program.layout_bindings[i].binding = b}

\* C11: linking a program whose two stages declare one binding with different
\* descriptor types succeeds; the layout holds exactly one entry for that
\* binding, of the type that was bound first, and the error that reports the
\* other type as ignored is logged.
C11_ConflictKeepsFirst ==
    (last_cmd = Cmd("LinkProgram", 1) /\ 1 \in DOMAIN program_map_) =>
        \A b \in ConflictingBindings(program_map_[1]) :
            /\ ~fatal
            /\ program_map_[1].descriptor_set_layout
            /\ Cardinality(LayoutEntries(program_map_[1], b)) = 1
            /\ \A i \in LayoutEntries(program_map_[1], b) :
                   \E msg \in logger_ :
                       /\ msg.level = "error"
                       /\ msg.binding = b
                       /\ msg.bound = program_map_[1].layout_bindings[i].descriptorType
                       /\ msg.type # msg.bound

C11_Witness ==
    /\ last_cmd = Cmd("LinkProgram", 1)
    /\ 1 \in DOMAIN program_map_
    /\ ConflictingBindings(program_map_[1]) = {0}
    /\ program_map_[1].layout_bindings[1].descriptorType = "CombinedImageSampler"
    /\ logger_ # {}

----------------------------------------------------------------------------
(* processCommandList: the range-for over command_list, one step to reach  *)
(* the next element and one for the visit of that element.                 *)

CommandAt(list, i) == list[i]

\* The call is entered; no other call of the render thread is running.
ProcessCommandList(list) ==
    /\ Idle
    /\ last_cmd.op # "visit"
    /\ command_index = Len(command_list)
    /\ command_list' = list
    /\ command_index' = 0
    /\ UNCHANGED <<procVars, regVars, gpu_buffers, cacheVars, item_mem, syncVars,
                   callVars, upload, present_requests, mapped_memory>>

\* The loop reaches its next element once the visit of the one before returned.
NextCommand ==
    /\ Idle
    /\ last_cmd.op # "visit"
    /\ command_index < Len(command_list)
    /\ command_index' = command_index + 1
    /\ last_cmd' = Cmd("visit", NoHandle)
    /\ UNCHANGED <<fatal, logger_, regVars, gpu_buffers, cacheVars, item_mem,
                   syncVars, callVars, command_list, upload,
                   present_requests, mapped_memory>>

\* visit: the operator() overload of the command's type is called.
Visit(c) ==
    CASE c.op = "CreateVertexBuffer" -> \E a \in Addrs : CreateVertexBuffer(c.handle, a)
      [] c.op = "UpdateVertexBuffer" -> UpdateVertexBuffer(c.handle)
      [] c.op = "DeleteVertexBuffer" ->
            \E o \in AssertOutcomes : DeleteVertexBuffer(c.handle, o)
      [] c.op = "CreateIndexBuffer" -> CreateIndexBuffer(c.handle, c.type)
      [] c.op = "UpdateIndexBuffer" -> UpdateIndexBuffer(c.handle)
      [] c.op = "DeleteIndexBuffer" ->
            \E o \in AssertOutcomes : DeleteIndexBuffer(c.handle, o)
      [] c.op = "CreateShader" -> CreateShader(c.handle, c.data)
      [] c.op = "DeleteShader" -> DeleteShader(c.handle)
      [] c.op = "CreateProgram" -> \E a \in Addrs : CreateProgram(c.handle, a)
      [] c.op = "AttachShader" -> AttachShader(c.handle, c.shader_handle)
      [] c.op = "LinkProgram" ->
            \E order \in SeqsUpTo(Stages, Cardinality(Stages)) \cup {<<>>} :
                LinkProgram(c.handle, order)
      [] c.op = "DeleteProgram" -> DeleteProgram(c.handle)
      [] c.op = "CreateTexture2D" -> CreateTexture2D(c.handle)
      [] c.op = "DeleteTexture" -> DeleteTexture(c.handle)
      [] c.op = "CreateFrameBuffer" -> CreateFrameBuffer(c.handle)
      [] c.op = "DeleteFrameBuffer" -> DeleteFrameBuffer(c.handle)

VisitCommand ==
    /\ last_cmd.op = "visit"
    /\ Visit(CommandAt(command_list, command_index))

----------------------------------------------------------------------------
(* SpecList: one command list of up to MaxList commands that create and    *)
(* delete vertex buffers and programs, processed from the initial state.   *)

ListCommands ==
    {Cmd(op, h) : op \in {"CreateVertexBuffer", "DeleteVertexBuffer",
                          "CreateProgram", "DeleteProgram"},
                  h \in Handles}

CommandLists == SeqsUpTo(ListCommands, MaxList)

NextList ==
    \/ \E list \in CommandLists : command_list = <<>> /\ ProcessCommandList(list)
    \/ NextCommand
    \/ VisitCommand

SpecList == Init /\ [][NextList]_vars

\* The handles registered per kind.
Registered ==
    [vertex_buffer |-> DOMAIN vertex_buffer_map_,
     program |-> DOMAIN program_map_]

\* What one command that returns does to the registered handles.
RegisteredAfter(reg, c) ==
    CASE c.op = "CreateVertexBuffer" -> [reg EXCEPT !.vertex_buffer = @ \cup {c.handle}]
      [] c.op = "DeleteVertexBuffer" -> [reg EXCEPT !.vertex_buffer = @ \ {c.handle}]
      [] c.op = "CreateProgram" -> [reg EXCEPT !.program = @ \cup {c.handle}]
      [] c.op = "DeleteProgram" -> [reg EXCEPT !.program = @ \ {c.handle}]
      [] OTHER -> reg

RECURSIVE FoldCommands(_, _)
FoldCommands(reg, list) ==
    IF list = <<>> THEN reg
    ELSE FoldCommands(RegisteredAfter(reg, Head(list)), Tail(list))

\* The commands of the list whose visit has returned.
CommandsDone == IF last_cmd.op = "visit" THEN command_index - 1 ELSE command_index

\* C12: the commands of a list are applied in the order of the list, one at a
\* time: whenever k commands have returned, the command visited last is the
\* k-th of the list and the registered handles are those the first k commands
\* of the list give when applied in that order to the empty registry.
C12_CommandsInOrder ==
    ~fatal =>
        /\ Registered = FoldCommands([vertex_buffer |-> {}, program |-> {}],
                                     SubSeq(command_list, 1, CommandsDone))
        /\ (CommandsDone > 0 /\ last_cmd.op # "visit")
               => last_cmd = command_list[CommandsDone]

C12_Witness ==
    /\ ~fatal
    /\ Len(command_list) = MaxList
    /\ command_index = MaxList
    /\ last_cmd.op # "visit"
    /\ command_list[1] = Cmd("DeleteVertexBuffer", 1)
    /\ command_list[2] = Cmd("CreateVertexBuffer", 1)
    /\ command_list[3] = Cmd("CreateProgram", 1)
    /\ Registered = [vertex_buffer |-> {1}, program |-> {1}]

----------------------------------------------------------------------------
(* SpecEndToEnd: one command list creates a vertex buffer, a vertex shader *)
(* with one uniform block, a fragment shader without resources and a       *)
(* program, attaches both shaders and links; then frames of one queue with *)
(* clear parameters (a colour, no depth clear) and one item that draws the *)
(* vertex buffer with the program, without an index buffer.                *)

EndToEndList ==
    <<Cmd("CreateVertexBuffer", 1),
      [op |-> "CreateShader", handle |-> 1, data |-> 1],
      [op |-> "CreateShader", handle |-> 2, data |-> 4],
      Cmd("CreateProgram", 1),
      [op |-> "AttachShader", handle |-> 1, shader_handle |-> 1],
      [op |-> "AttachShader", handle |-> 1, shader_handle |-> 2],
      Cmd("LinkProgram", 1)>>

\* Colours as (r, g, b, a) in tenths.
Colours == {<<0, 0, 2, 10>>, <<10, 10, 10, 10>>}

ClearParameters(clear_colour, colour, clear_depth) ==
    [clear_colour |-> clear_colour, colour |-> colour, clear_depth |-> clear_depth]

EndToEndFrames ==
    {[render_queues |->
        <<RenderQueue(NoHandle, <<ClearParameters(TRUE, c, FALSE)>>,
                      <<RenderItem(1, 1, 1, NoHandle, n, TRUE, <<>>)>>)>>] :
        c \in Colours, n \in 1..MaxItems}

\* processCommandList has returned from the whole list.
ListDone == command_index = Len(command_list) /\ last_cmd.op # "visit"

NextEndToEnd ==
    \/ command_list = <<>> /\ ProcessCommandList(EndToEndList)
    \/ NextCommand
    \/ VisitCommand
    \/ /\ Idle
       /\ command_list # <<>>
       /\ ListDone
       /\ \E f \in EndToEndFrames : FrameBegin(f, [a \in ItemAddrs |-> TRUE])
    \/ \E i \in Images : FrameAcquire(i)
    \/ FrameImageWait
    \/ FrameRecord("first")
    \/ FrameSubmit
    \/ \E j \in gpu_pending : GpuComplete(j)

SpecEndToEnd == Init /\ [][NextEndToEnd]_vars

\* The commands of the recording with the given name.
CommandsNamed(op) == {k \in DOMAIN command_buffer : command_buffer[k].op = op}

----------------------------------------------------------------------------
(* Leaving frame() once the command buffer has been begun (SpecSync).      *)

\* The steps of the running or the last frame() call with the given name.
EventsNamed(name) == {k \in DOMAIN events : events[k][1] = name}

\* C14 (as claimed): a frame() call that has begun its command buffer does not
\* end before it has submitted the command buffer and presented the image.
C14_RecordingAlwaysSubmits ==
    (pc \in {"idle", "aborted"} /\ EventsNamed("Record") # {}) =>
        /\ EventsNamed("Submit") # {}
        /\ EventsNamed("Present") # {}

\* C15 (as claimed): a render queue that names a frame buffer is recorded as a
\* queue without one: the recording does not fail and holds, for every queue
\* of the frame, a render pass on the framebuffer of the acquired image.
C15_FrameBufferUsesBackbuffer ==
    (pc \in {"submit", "aborted"}
        /\ \E q \in DOMAIN frame_arg.render_queues :
               frame_arg.render_queues[q].frame_buffer # NoHandle) =>
        /\ ~fatal
        /\ pc = "submit"
        /\ Cardinality(CommandsNamed("beginRenderPass")) = Len(frame_arg.render_queues)
        /\ \A k \in CommandsNamed("beginRenderPass") :
               command_buffer[k].args[1] = next_index

----------------------------------------------------------------------------
(* What Delete leaves allocated (SpecLink).                                *)

\* The uniform buffers (staging and per image) of the registered programs.
OwnedBuffers ==
    UNION {{program_map_[h].uniform_buffers[u].buffers[i] :
                i \in 1..(NumImages + 1)} :
           <<h, u>> \in {hu \in (DOMAIN program_map_) \X (1..MaxShader) :
                           hu[2] \in DOMAIN program_map_[hu[1]].uniform_buffers}}

\* C16 (as claimed): after a Delete command no allocation made for the deleted
\* record remains; here, after DeleteProgram every live uniform buffer belongs
\* to a program that is still registered.
C16_DeleteFreesAllocations ==
    last_cmd.op = "DeleteProgram" => DOMAIN gpu_buffers \subseteq OwnedBuffers

----------------------------------------------------------------------------
(* SpecUnknownUniform: after the set-up, frames of one queue with one item *)
(* that draws vertex buffer 1 with program 1 and sets, in either order,    *)
(* one or two of "u.a", "u.b" and "u.x" to one byte each; the program      *)
(* declares no field "u.x".                                                *)

UnknownUniformMaps ==
    {us \in SeqsUpTo([name : UniformNames \cup {"u.x"}, value : [1..1 -> Bytes]], 2) :
        \A i, j \in DOMAIN us : us[i].name = us[j].name => i = j}

UnknownUniformFrames ==
    {[render_queues |->
        <<RenderQueue(NoHandle, <<>>,
                      <<RenderItem(1, 1, 1, NoHandle, 1, TRUE, us)>>)>>] :
        us \in UnknownUniformMaps}

NextUnknownUniform ==
    \/ SetUp
    \/ \E f \in UnknownUniformFrames : Ready /\ FrameBegin(f, [a \in ItemAddrs |-> TRUE])
    \/ AcquireInTurn
    \/ FrameImageWait
    \/ FrameRecord("first")
    \/ FrameSubmit
    \/ \E j \in gpu_pending : GpuComplete(j)

SpecUnknownUniform == Init /\ [][NextUnknownUniform]_vars

\* C17 (as claimed): when a recorded item sets a name its program does not
\* declare, a warning is logged, the frame goes on without a fatal error, the
\* declared fields of the item are written and the item's draw is recorded.
C17_UnknownUniformWarns ==
    (pc \in {"submit", "aborted"}
        /\ \E u \in DOMAIN frame_arg.render_queues[1].render_items[1].uniforms :
               frame_arg.render_queues[1].render_items[1].uniforms[u].name
                   \notin DOMAIN program_map_[1].uniform_locations) =>
        /\ \E msg \in logger_ : msg.level = "warn"
        /\ ~fatal
        /\ pc = "submit"
        /\ Cardinality(CommandsNamed("draw")) = 1
        /\ \A u \in DOMAIN frame_arg.render_queues[1].render_items[1].uniforms :
               LET un == frame_arg.render_queues[1].render_items[1].uniforms[u]
               IN  un.name \in DOMAIN program_map_[1].uniform_locations
                       => StagedField(program_map_[1], un.name) = un.value

----------------------------------------------------------------------------
(* SpecPool: more programs than the descriptor pool has sets for.  Vertex  *)
(* buffer 1 and shader 1 are created; the programs of PoolPrograms are     *)
(* created (program p in the node at address p), given shader 1 and        *)
(* linked; frames of one queue draw vertex buffer 1 with linked programs.  *)

PoolPrograms == 1..(MaxHandle + 1)

Linked(p) == p \in DOMAIN program_map_ /\ program_map_[p].descriptor_set_layout

PoolFrames ==
    {[render_queues |->
        <<RenderQueue(NoHandle, <<>>,
                      [k \in DOMAIN ps |->
                          RenderItem(k, ps[k], 1, NoHandle, 1, TRUE, <<>>)])>>] :
        ps \in SeqsUpTo({p \in PoolPrograms : Linked(p)}, MaxItems)}

NextPool ==
    \/ 1 \notin DOMAIN vertex_buffer_map_ /\ CreateVertexBuffer(1, 1)
    \/ 1 \notin DOMAIN shader_map_ /\ CreateShader(1, 1)
    \/ \E p \in PoolPrograms : p \notin DOMAIN program_map_ /\ CreateProgram(p, p)
    \/ \E p \in PoolPrograms :
            /\ p \in DOMAIN program_map_
            /\ 1 \in DOMAIN shader_map_
            /\ program_map_[p].stages = EmptyMap
            /\ AttachShader(p, 1)
    \/ \E p \in PoolPrograms :
            /\ p \in DOMAIN program_map_
            /\ program_map_[p].stages # EmptyMap
            /\ Unlinked(p)
            /\ LinkProgram(p, <<"Vertex">>)
    \/ /\ Idle
       /\ 1 \in DOMAIN vertex_buffer_map_
       /\ \E f \in PoolFrames : FrameBegin(f, [a \in ItemAddrs |-> TRUE])
    \/ AcquireInTurn
    \/ FrameImageWait
    \/ FrameRecord("first")
    \/ FrameSubmit
    \/ \E j \in gpu_pending : GpuComplete(j)

SpecPool == Init /\ [][NextPool]_vars

\* The items of the running frame whose program has no cached set group.
ItemsWithoutSets ==
    {k \in DOMAIN ItemsOf(frame_arg.render_queues) :
        FindDescriptorSet(descriptor_set_cache_,
            DescriptorInfo(program_map_[ItemsOf(frame_arg.render_queues)[k].program])) = 0}

\* C18: the pool never gives out more than its capacity, and every cached
\* group holds NumImages sets of it; a recording fails as fatal exactly when
\* it comes to an item whose program has no cached group and the pool has not
\* NumImages sets left, and the failed resolution leaves no cache entry for
\* that program.
C18_PoolExhaustionIsFatal ==
    /\ sets_allocated <= PoolMaxSets
    /\ sets_allocated = NumImages * Len(descriptor_set_cache_)
    /\ pc = "submit" => ItemsWithoutSets = {}
    /\ pc = "aborted" =>
          /\ fatal
          /\ ItemsWithoutSets # {}
          /\ sets_allocated + NumImages > PoolMaxSets

C18_Witness ==
    /\ pc = "aborted"
    /\ fatal
    /\ sets_allocated = NumImages
    /\ Len(descriptor_set_cache_) = 1
    /\ Len(ItemsOf(frame_arg.render_queues)) = 2
    /\ ItemsWithoutSets = {2}

----------------------------------------------------------------------------
(* SpecHandles: one command list registers vertex buffer 1, index buffer 1 *)
(* and program 1 (linked, with shader 1); then frames of one queue whose   *)
(* items name program, vertex buffer and index buffer 1 or the handle      *)
(* UnregisteredHandle, the two buffers being optional; frame() is called   *)
(* once.                                                                   *)

UnregisteredHandle == MaxHandle + 1

HandlesList ==
    <<Cmd("CreateVertexBuffer", 1),
      [op |-> "CreateIndexBuffer", handle |-> 1, type |-> "U16"],
      [op |-> "CreateShader", handle |-> 1, data |-> 1],
      Cmd("CreateProgram", 1),
      [op |-> "AttachShader", handle |-> 1, shader_handle |-> 1],
      Cmd("LinkProgram", 1)>>

HandlesItems ==
    {[program |-> p, vb |-> v, ib |-> i] :
        p \in {1, UnregisteredHandle},
        v \in {NoHandle, 1, UnregisteredHandle},
        i \in {NoHandle, 1, UnregisteredHandle}}

HandlesFrames ==
    {[render_queues |->
        <<RenderQueue(NoHandle, <<>>,
                      [k \in DOMAIN is |->
                          RenderItem(k, is[k].program, is[k].vb, is[k].ib, 1, TRUE, <<>>)])>>] :
        is \in SeqsUpTo(HandlesItems, MaxItems)}

NextHandles ==
    \/ command_list = <<>> /\ ProcessCommandList(HandlesList)
    \/ NextCommand
    \/ VisitCommand
    \/ /\ Idle
       /\ command_list # <<>>
       /\ ListDone
       /\ frames_done = 0
       /\ \E f \in HandlesFrames : FrameBegin(f, [a \in ItemAddrs |-> TRUE])
    \/ AcquireInTurn
    \/ FrameImageWait
    \/ FrameRecord("first")
    \/ FrameSubmit
    \/ \E j \in gpu_pending : GpuComplete(j)

SpecHandles == Init /\ [][NextHandles]_vars

\* The items of the running frame that name a handle that is not registered.
ItemsUnregistered ==
    {k \in DOMAIN ItemsOf(frame_arg.render_queues) :
        LET ri == ItemsOf(frame_arg.render_queues)[k]
        IN  \/ ri.program \notin DOMAIN program_map_
            \/ ri.vb # NoHandle /\ ri.vb \notin DOMAIN vertex_buffer_map_
            \/ ri.ib # NoHandle /\ ri.ib \notin DOMAIN index_buffer_map_}

\* The same, an index buffer counting only for an item with a vertex buffer.
ItemsLookedUpUnregistered ==
    {k \in DOMAIN ItemsOf(frame_arg.render_queues) :
        LET ri == ItemsOf(frame_arg.render_queues)[k]
        IN  \/ ri.program \notin DOMAIN program_map_
            \/ ri.vb # NoHandle /\ ri.vb \notin DOMAIN vertex_buffer_map_
            \/ ri.vb # NoHandle /\ ri.ib # NoHandle /\ ri.ib \notin DOMAIN index_buffer_map_}

\* The draws recorded, and the items before item k that have a vertex buffer.
DrawsRecorded == CommandsNamed("draw") \cup CommandsNamed("drawIndexed")

DrawnBefore(k) ==
    {j \in 1..(k - 1) : ItemsOf(frame_arg.render_queues)[j].vb # NoHandle}

\* C19 (as claimed): a recorded frame with an item that names an unregistered
\* program, vertex buffer or index buffer has failed as fatal, and only the
\* items before the first such item have a draw in the command buffer.
C19_UnregisteredHandleIsFatal ==
    (pc \in {"submit", "aborted"} /\ ItemsUnregistered # {}) =>
        /\ fatal
        /\ pc = "aborted"
        /\ \E k \in ItemsUnregistered :
              /\ \A j \in ItemsUnregistered : k <= j
              /\ Cardinality(DrawsRecorded) = Cardinality(DrawnBefore(k))

\* C19 (amended): the same for an unregistered program, an unregistered
\* vertex buffer, or an unregistered index buffer of an item that has a
\* vertex buffer; an item without a vertex buffer is skipped before its index
\* buffer is looked up.
C19_LookedUpHandleIsFatal ==
    (pc \in {"submit", "aborted"} /\ ItemsLookedUpUnregistered # {}) =>
        /\ fatal
        /\ pc = "aborted"
        /\ \E k \in ItemsLookedUpUnregistered :
              /\ \A j \in ItemsLookedUpUnregistered : k <= j
              /\ Cardinality(DrawsRecorded) = Cardinality(DrawnBefore(k))

\* The second item of a frame has a registered vertex buffer and an
\* unregistered index buffer; the first was drawn.
C19_Witness ==
    /\ pc = "aborted"
    /\ fatal
    /\ ItemsLookedUpUnregistered = {2}
    /\ ItemsOf(frame_arg.render_queues)[2].vb = 1
    /\ ItemsOf(frame_arg.render_queues)[2].ib = UnregisteredHandle
    /\ Cardinality(DrawsRecorded) = 1
    /\ Cardinality(CommandsNamed("bindVertexBuffers")) = 2

----------------------------------------------------------------------------
(* SpecBindings: vertex buffer 1 is created, shaders are created from any  *)
(* binaries, program 1 is created, given one shader per stage and linked   *)
(* once, its stages visited in any order; then frames of one queue with    *)
(* one item that draws the vertex buffer with the program.                 *)

BindingsFrame ==
    [render_queues |->
        <<RenderQueue(NoHandle, <<>>, <<RenderItem(1, 1, 1, NoHandle, 1, TRUE, <<>>)>>)>>]

NextBindings ==
    \/ 1 \notin DOMAIN vertex_buffer_map_ /\ CreateVertexBuffer(1, 1)
    \/ \E s \in ShaderHandles : \E id \in BinaryIds :
            s \notin DOMAIN shader_map_ /\ CreateShader(s, id)
    \/ 1 \notin DOMAIN program_map_ /\ CreateProgram(1, 1)
    \/ \E s \in ShaderHandles :
            /\ 1 \in DOMAIN program_map_
            /\ s \in DOMAIN shader_map_
            /\ Unlinked(1)
            /\ shader_map_[s].stage \notin DOMAIN program_map_[1].stages
            /\ AttachShader(1, s)
    \/ \E order \in SeqsUpTo(Stages, 2) \cup {<<>>} :
            1 \in DOMAIN program_map_ /\ Unlinked(1) /\ LinkProgram(1, order)
    \/ /\ Idle
       /\ Linked(1)
       /\ 1 \in DOMAIN vertex_buffer_map_
       /\ FrameBegin(BindingsFrame, [a \in ItemAddrs |-> TRUE])
    \/ \E i \in Images : FrameAcquire(i)
    \/ FrameImageWait
    \/ FrameRecord("first")
    \/ FrameSubmit
    \/ \E j \in gpu_pending : GpuComplete(j)

SpecBindings == Init /\ [][NextBindings]_vars

\* The bindings at which the attached stages declare a uniform block.
BlockBindings(program) ==
    UNION {DOMAIN program.stages[st].uniform_buffer_bindings : st \in DOMAIN program.stages}

\* The place in program.uniform_buffers of the block declared at binding b:
\* LinkProgram pushes the blocks in ascending order of their bindings.
BlockIndexOf(program, b) == Cardinality({x \in BlockBindings(program) : x < b}) + 1

\* C21 (as claimed): a recorded frame that draws with a linked program has not
\* failed; its resolution returned NumImages sets, taken from the pool on the
\* miss, and in the set of image i every uniform-buffer write to binding b
\* names device buffer i of the block declared at binding b, whichever
\* bindings the program's stages declare.
C21_SetsPointAtDeclaredBlock ==
    pc \in {"submit", "aborted"} =>
        /\ ~fatal
        /\ Len(dset_log) = 1
        /\ sets_allocated = NumImages
        /\ \A k \in DOMAIN dset_log :
              /\ Len(dset_log[k].descriptor_sets) = NumImages
              /\ \A i \in 1..NumImages :
                    \A w \in DOMAIN dset_log[k].descriptor_sets[i].writes :
                        LET write == dset_log[k].descriptor_sets[i].writes[w]
                        IN  write.descriptorType = "UniformBuffer" =>
                                write.buffer =
                                    program_map_[1].uniform_buffers[
                                        BlockIndexOf(program_map_[1], write.dstBinding)
                                    ].buffers[i + 1]

----------------------------------------------------------------------------
(* What AttachShader keeps per stage kind (SpecLink).                      *)

\* The entries of program.pipeline_stages for the stage kind st.
StageEntries(program, st) ==
    {i \in DOMAIN program.pipeline_stages : program.pipeline_stages[i].stage = st}

\* C22 (as claimed): whatever shaders were attached to a program, its stage
\* map and the stage list handed to pipeline creation hold one shader per
\* stage kind, the one that was attached last for that kind.
C22_OneShaderPerStage ==
    \A h \in DOMAIN program_map_ :
        /\ \A st \in DOMAIN program_map_[h].stages :
              \A i \in StageEntries(program_map_[h], st) :
                  program_map_[h].pipeline_stages[i].module =
                      program_map_[h].stages[st].module
        /\ \A st \in Stages :
              Cardinality(StageEntries(program_map_[h], st)) =
                  IF st \in DOMAIN program_map_[h].stages THEN 1 ELSE 0

----------------------------------------------------------------------------
(* SpecCopy: after the set-up, frames of one queue with 1..MaxItems items  *)
(* of program 1, each with or without the vertex buffer; the items of a    *)
(* frame all set "u.a" to the same byte or all set nothing; the swap chain *)
(* hands its images out in turn.                                           *)

CopyUniformMaps == {<<>>} \cup {<<[name |-> "u.a", value |-> <<b>>]>> : b \in Bytes}

CopyFrames ==
    {[render_queues |->
        <<RenderQueue(NoHandle, <<>>,
                      [k \in DOMAIN vs |->
                          RenderItem(k, 1, vs[k], NoHandle, 1, TRUE, us)])>>] :
        vs \in SeqsUpTo({NoHandle, 1}, MaxItems), us \in CopyUniformMaps}

NextCopy ==
    \/ SetUp
    \/ /\ Idle
       /\ Ready
       /\ \E f \in CopyFrames : FrameBegin(f, [a \in ItemAddrs |-> TRUE])
    \/ AcquireInTurn
    \/ FrameImageWait
    \/ FrameRecord("first")
    \/ FrameSubmit
    \/ \E j \in gpu_pending : GpuComplete(j)

SpecCopy == Init /\ [][NextCopy]_vars

\* The uniform blocks of the programs that the items of the running frame name.
BlocksOfFrame ==
    UNION {{program_map_[ItemsOf(frame_arg.render_queues)[k].program].uniform_buffers[u] :
                u \in DOMAIN program_map_[ItemsOf(frame_arg.render_queues)[k].program].uniform_buffers} :
           k \in DOMAIN ItemsOf(frame_arg.render_queues)}

\* C23: once a frame is recorded, for every item and every uniform block of
\* the item's program the device buffer of the acquired image holds what the
\* block's staging buffer holds, and the device buffers of the other images
\* hold what they held before the recording, whether or not an item set a
\* field of the block and whether or not it has a vertex buffer.
C23_CopyToAcquiredImage ==
    [][(pc = "record" /\ pc' # "record") =>
          /\ pc' = "submit"
          /\ \A ubo \in BlocksOfFrame :
                /\ gpu_buffers'[ubo.buffers[next_index + 2]] = gpu_buffers'[ubo.buffers[1]]
                /\ \A i \in Images \ {next_index} :
                       gpu_buffers'[ubo.buffers[i + 2]] = gpu_buffers[ubo.buffers[i + 2]]]_vars

\* A frame with one item that sets nothing and has no vertex buffer was
\* recorded for an image no frame used before: the image's device buffer
\* holds the byte an earlier frame staged.
C23_Witness ==
    /\ pc = "submit"
    /\ image_fence_waited = NoFence
    /\ Len(ItemsOf(frame_arg.render_queues)) = 1
    /\ ItemsOf(frame_arg.render_queues)[1].vb = NoHandle
    /\ ItemsOf(frame_arg.render_queues)[1].uniforms = <<>>
    /\ \A ubo \in BlocksOfFrame :
          /\ gpu_buffers[ubo.buffers[1]][1] \in Bytes
          /\ gpu_buffers[ubo.buffers[next_index + 2]] = gpu_buffers[ubo.buffers[1]]

----------------------------------------------------------------------------
(* What a recording leaves of the staging buffers (SpecUniform).           *)

\* The bytes (buffer id, position) of the fields that the uniform maps of the
\* running frame's items name, by the place LinkProgram recorded for each.
NamedFieldBytes ==
    UNION {{<<program_map_[ItemsOf(frame_arg.render_queues)[k].program].uniform_buffers[
                  program_map_[ItemsOf(frame_arg.render_queues)[k].program]
                      .uniform_locations[un.name].ubo_index + 1].buffers[1],
              pos>> :
                pos \in (program_map_[ItemsOf(frame_arg.render_queues)[k].program]
                            .uniform_locations[un.name].offset + 1) ..
                        (program_map_[ItemsOf(frame_arg.render_queues)[k].program]
                            .uniform_locations[un.name].offset
                         + program_map_[ItemsOf(frame_arg.render_queues)[k].program]
                            .uniform_locations[un.name].size)} :
           <<k, un>> \in
              {ku \in (DOMAIN ItemsOf(frame_arg.render_queues))
                        \X [name : UniformNames, value : UniformValues] :
                  \E u \in DOMAIN ItemsOf(frame_arg.render_queues)[ku[1]].uniforms :
                      ItemsOf(frame_arg.render_queues)[ku[1]].uniforms[u] = ku[2]}}

\* C24 (as claimed): a recording changes, in the staging buffers, only bytes
\* inside the recorded byte ranges of the fields that the uniform maps of its
\* items name; every other staging byte is what it was before the recording.
C24_OnlyNamedFieldsWritten ==
    [][(pc = "record" /\ pc' # "record") =>
          \A ubo \in BlocksOfFrame :
              \A pos \in DOMAIN gpu_buffers[ubo.buffers[1]] :
                  gpu_buffers'[ubo.buffers[1]][pos] # gpu_buffers[ubo.buffers[1]][pos]
                      => <<ubo.buffers[1], pos>> \in NamedFieldBytes]_vars

----------------------------------------------------------------------------
(* Items without a vertex buffer (SpecCopy).                               *)

HasVertexBuffer(ri) == ri.vb # NoHandle

\* The items of the running frame that have a vertex buffer, in order.
DrawingItems == SelectSeq(ItemsOf(frame_arg.render_queues), HasVertexBuffer)

\* C25: a recorded frame has not failed, and its pipeline resolutions, its
\* descriptor-set resolutions, its pipeline binds, its descriptor-set binds,
\* its vertex buffer binds and its draws are one each per item that has a
\* vertex buffer, the resolutions being those of these items in order: an
\* item without a vertex buffer adds none, and the items after it are
\* processed.
C25_NoVertexBufferSkipsDraw ==
    pc \in {"submit", "aborted"} =>
        /\ ~fatal
        /\ Len(pipeline_log) = Len(DrawingItems)
        /\ \A k \in DOMAIN pipeline_log : pipeline_log[k].render_item = DrawingItems[k].addr
        /\ Len(dset_log) = Len(DrawingItems)
        /\ Cardinality(CommandsNamed("bindPipeline")) = Len(DrawingItems)
        /\ Cardinality(CommandsNamed("bindDescriptorSets")) = Len(DrawingItems)
        /\ Cardinality(CommandsNamed("bindVertexBuffers")) = Len(DrawingItems)
        /\ Cardinality(DrawsRecorded) = Len(DrawingItems)

\* The first item of a recorded frame has no vertex buffer, the second has.
C25_Witness ==
    /\ pc = "submit"
    /\ Len(ItemsOf(frame_arg.render_queues)) = 2
    /\ ItemsOf(frame_arg.render_queues)[1].vb = NoHandle
    /\ ItemsOf(frame_arg.render_queues)[2].vb = 1
    /\ Len(pipeline_log) = 1
    /\ pipeline_log[1].render_item = 2
    /\ Cardinality(DrawsRecorded) = 1

----------------------------------------------------------------------------
(* SpecDraw: the command list of SpecHandles registers vertex buffer 1,    *)
(* index buffer 1 and program 1; then one frame of 1..MaxItems items       *)
(* spread in order over one or more queues, each item with or without the  *)
(* vertex buffer and with or without the index buffer, item k of the frame *)
(* with primitive_count k.                                                 *)

DrawItems == [vb : {NoHandle, 1}, ib : {NoHandle, 1}]

\* The queue of item k when a new queue starts after each item of cuts.
QueueOfItem(cuts, k) == 1 + Cardinality({c \in cuts : c < k})

DrawFrame(is, cuts) ==
    [render_queues |->
        [q \in 1..(Cardinality(cuts) + 1) |->
            RenderQueue(NoHandle, <<>>,
                LET ks == SortedSeq({k \in DOMAIN is : QueueOfItem(cuts, k) = q})
                IN  [j \in DOMAIN ks |->
                        RenderItem(ks[j], 1, is[ks[j]].vb, is[ks[j]].ib, ks[j], TRUE, <<>>)])]]

DrawFrames ==
    {DrawFrame(ic[1], ic[2]) :
        ic \in {x \in SeqsUpTo(DrawItems, MaxItems) \X SUBSET (1..(MaxItems - 1)) :
                   x[2] \subseteq 1..(Len(x[1]) - 1)}}

NextDraw ==
    \/ command_list = <<>> /\ ProcessCommandList(HandlesList)
    \/ NextCommand
    \/ VisitCommand
    \/ /\ Idle
       /\ command_list # <<>>
       /\ ListDone
       /\ frames_done = 0
       /\ \E f \in DrawFrames : FrameBegin(f, [a \in ItemAddrs |-> TRUE])
    \/ \E i \in Images : FrameAcquire(i)
    \/ FrameImageWait
    \/ FrameRecord("first")
    \/ FrameSubmit
    \/ \E j \in gpu_pending : GpuComplete(j)

SpecDraw == Init /\ [][NextDraw]_vars

IsDraw(c) == c.op \in {"draw", "drawIndexed"}

\* The draw frame() records for an item that has a vertex buffer.
DrawOf(ri) ==
    Command(IF ri.ib # NoHandle THEN "drawIndexed" ELSE "draw", <<ri.primitive_count * 3>>)

\* The draws recorded between the q-th beginRenderPass and the q-th
\* endRenderPass of the command buffer.
DrawsInPass(q) ==
    {k \in DrawsRecorded :
        /\ SortedSeq(CommandsNamed("beginRenderPass"))[q] < k
        /\ k < SortedSeq(CommandsNamed("endRenderPass"))[q]}

\* C26: the draws of a recorded frame are, in order, one per item that has a
\* vertex buffer, taken queue after queue and item after item: an indexed draw
\* for an item with an index buffer, a plain draw otherwise, of
\* primitive_count * 3 vertices; the draws of a queue's items stand inside
\* that queue's render pass.
C26_OneDrawPerItemInOrder ==
    pc \in {"submit", "aborted"} =>
        /\ ~fatal
        /\ SelectSeq(command_buffer, IsDraw) =
               [k \in DOMAIN DrawingItems |-> DrawOf(DrawingItems[k])]
        /\ Cardinality(CommandsNamed("beginRenderPass")) = Len(frame_arg.render_queues)
        /\ Cardinality(CommandsNamed("endRenderPass")) = Len(frame_arg.render_queues)
        /\ \A q \in DOMAIN frame_arg.render_queues :
              Cardinality(DrawsInPass(q)) =
                  Len(SelectSeq(frame_arg.render_queues[q].render_items, HasVertexBuffer))

\* A frame of two queues was recorded: the item of the first is drawn
\* indexed with 3 vertices, the item of the second plain with 6.
C26_Witness ==
    /\ pc = "submit"
    /\ Len(frame_arg.render_queues) = 2
    /\ SelectSeq(command_buffer, IsDraw) =
           <<Command("drawIndexed", <<3>>), Command("draw", <<6>>)>>
    /\ Cardinality(DrawsInPass(1)) = 1
    /\ Cardinality(DrawsInPass(2)) = 1

----------------------------------------------------------------------------
(* SpecRelink: shaders are created from any binaries and attached to       *)
(* program 1, and the program is linked, any number of times in any order  *)
(* with the attaches, as long as its lists stay within MaxShader entries   *)
(* before a command.                                                       *)

NextRelink ==
    \/ \E s \in ShaderHandles : \E id \in BinaryIds :
            s \notin DOMAIN shader_map_ /\ CreateShader(s, id)
    \/ 1 \notin DOMAIN program_map_ /\ CreateProgram(1, 1)
    \/ \E s \in ShaderHandles :
            /\ 1 \in DOMAIN program_map_
            /\ s \in DOMAIN shader_map_
            /\ Len(program_map_[1].pipeline_stages) < MaxShader
            /\ AttachShader(1, s)
    \/ \E order \in SeqsUpTo(Stages, 2) \cup {<<>>} :
            /\ 1 \in DOMAIN program_map_
            /\ Len(program_map_[1].uniform_buffers) <= MaxShader
            /\ Len(program_map_[1].layout_bindings) <= MaxShader
            /\ LinkProgram(1, order)

SpecRelink == Init /\ [][NextRelink]_vars

\* The block that the attached stages declare at binding b.
BlockAt(program, b) ==
    CHOOSE blk \in {program.stages[st].uniform_buffer_bindings[b] :
                       st \in {x \in DOMAIN program.stages :
                                  b \in DOMAIN program.stages[x].uniform_buffer_bindings}} :
        TRUE

\* The buffers of the entries of program.uniform_buffers.
BuffersOf(program) ==
    UNION {{program.uniform_buffers[u].buffers[i] :
                i \in DOMAIN program.uniform_buffers[u].buffers} :
           u \in DOMAIN program.uniform_buffers}

\* The names "block.field" of the fields of the blocks of the attached stages.
FieldNames(program) ==
    UNION {{BlockAt(program, b).name \o "." \o BlockAt(program, b).fields[f].name :
                f \in DOMAIN BlockAt(program, b).fields} :
           b \in BlockBindings(program)}

\* C27 (as claimed): after LinkProgram the program's block list holds one
\* entry per uniform block of the attached stages, each with a staging buffer
\* and NumImages device buffers of the block's size, all of them distinct live
\* buffers, and the flattened map holds exactly the names "block.field", each
\* sent to the block's index in the list and the field's offset and size.
C27_BlocksAndFieldMap ==
    (last_cmd = Cmd("LinkProgram", 1) /\ ~fatal) =>
        /\ Len(program_map_[1].uniform_buffers) = Cardinality(BlockBindings(program_map_[1]))
        /\ Cardinality(BuffersOf(program_map_[1])) =
               (NumImages + 1) * Cardinality(BlockBindings(program_map_[1]))
        /\ BuffersOf(program_map_[1]) \subseteq DOMAIN gpu_buffers
        /\ \A b \in BlockBindings(program_map_[1]) :
              LET ubo == program_map_[1].uniform_buffers[BlockIndexOf(program_map_[1], b)]
                  blk == BlockAt(program_map_[1], b)
              IN  /\ Len(ubo.buffers) = NumImages + 1
                  /\ ubo.size = blk.size
                  /\ \A i \in DOMAIN ubo.buffers : Len(gpu_buffers[ubo.buffers[i]]) = blk.size
                  /\ \A f \in DOMAIN blk.fields :
                        /\ (blk.name \o "." \o blk.fields[f].name)
                               \in DOMAIN program_map_[1].uniform_locations
                        /\ program_map_[1].uniform_locations[blk.name \o "." \o blk.fields[f].name]
                               = [ubo_index |-> BlockIndexOf(program_map_[1], b) - 1,
                                  offset |-> blk.fields[f].offset,
                                  size |-> blk.fields[f].size]
        /\ DOMAIN program_map_[1].uniform_locations = FieldNames(program_map_[1])

----------------------------------------------------------------------------
(* SpecStale: vertex buffer 1, shader 1 and program 1 are created, the     *)
(* program is given the shader and linked; the vertex buffer and the       *)
(* program are deleted and made again, the vertex buffer in the map node   *)
(* it had and the program in a node at any free address, the program being *)
(* linked again once; between the commands, frames of one queue with one   *)
(* item, at any address and with colour writes on or off, that draws the   *)
(* vertex buffer with the linked program.                                  *)

StaleFrames ==
    {[render_queues |->
        <<RenderQueue(NoHandle, <<>>, <<RenderItem(a, 1, 1, NoHandle, 1, cw, <<>>)>>)>>] :
        a \in ItemAddrs, cw \in BOOLEAN}

\* The application writes the frame's item at its address and leaves the
\* other addresses as they are.
StaleMemory(f) ==
    [item_mem EXCEPT ![ItemsOf(f.render_queues)[1].addr] =
                          ItemsOf(f.render_queues)[1].colour_write]

NextStale ==
    \/ 1 \notin DOMAIN vertex_buffer_map_ /\ CreateVertexBuffer(1, 1)
    \/ 1 \notin DOMAIN shader_map_ /\ CreateShader(1, 1)
    \/ \E a \in Addrs : 1 \notin DOMAIN program_map_ /\ CreateProgram(1, a)
    \/ /\ 1 \in DOMAIN program_map_
       /\ 1 \in DOMAIN shader_map_
       /\ program_map_[1].stages = EmptyMap
       /\ AttachShader(1, 1)
    \/ /\ 1 \in DOMAIN program_map_
       /\ program_map_[1].stages # EmptyMap
       /\ Unlinked(1)
       /\ Cardinality(DOMAIN gpu_buffers) <= NumImages + 1
       /\ LinkProgram(1, <<"Vertex">>)
    \/ 1 \in DOMAIN vertex_buffer_map_ /\ DeleteVertexBuffer(1, "abort")
    \/ 1 \in DOMAIN program_map_ /\ DeleteProgram(1)
    \/ /\ Idle
       /\ Linked(1)
       /\ 1 \in DOMAIN vertex_buffer_map_
       /\ \E f \in StaleFrames : FrameBegin(f, StaleMemory(f))
    \/ AcquireInTurn
    \/ FrameImageWait
    \/ FrameRecord("first")
    \/ FrameSubmit
    \/ \E j \in gpu_pending : GpuComplete(j)

SpecStale == Init /\ [][NextStale]_vars

\* The entries of the pipeline cache that a logged resolution names.
EntriesReturned(cache, log) ==
    {e \in DOMAIN cache :
        /\ cache[e].value.pipeline = log.pipeline
        /\ cache[e].value.colorWriteMask = log.colorWriteMask}

\* C28: no step, of a command or of a frame, removes or changes an entry of
\* the pipeline cache: the cache after a step holds the entries it held
\* before, followed by those the step added; and a resolution that did not
\* build its pipeline returned an entry as the cache holds it.
C28_PipelineCacheOnlyGrows ==
    [][/\ IsPrefix(graphics_pipeline_cache_, graphics_pipeline_cache_')
       /\ \A k \in DOMAIN pipeline_log' :
             ~pipeline_log'[k].built =>
                 EntriesReturned(graphics_pipeline_cache_', pipeline_log'[k]) # {}]_vars

\* A frame was answered from a cache of two entries, after the vertex buffer
\* and the program had been made again.
C28_Witness ==
    /\ pc = "submit"
    /\ Len(graphics_pipeline_cache_) >= 2
    /\ Len(pipeline_log) = 1
    /\ ~pipeline_log[1].built
    /\ Cardinality(DOMAIN gpu_buffers) > NumImages + 1

\* The key frame() builds for a logged pipeline resolution.
LoggedPipelineInfo(log) ==
    [render_item |-> log.render_item,
     vb |-> vertex_buffer_map_[log.vb].addr,
     program |-> program_map_[log.program].addr]

\* C29: a DeleteProgram or DeleteVertexBuffer step leaves both caches as they
\* are; and a resolution of a recording whose key equals the key of an entry
\* that was cached before the recording builds and allocates nothing and
\* returns a cached entry, also when the entry was made for a program or a
\* vertex buffer that has been deleted since.
C29_DeleteKeepsCaches ==
    [][/\ (last_cmd'.op \in {"DeleteProgram", "DeleteVertexBuffer"} /\ regVars' # regVars)
              => UNCHANGED <<graphics_pipeline_cache_, descriptor_set_cache_>>
       /\ (pc = "record" /\ pc' # "record") =>
              /\ \A k \in DOMAIN pipeline_log' :
                    (\E e \in DOMAIN graphics_pipeline_cache_ :
                        PipelineInfoEq(graphics_pipeline_cache_[e].key,
                                       LoggedPipelineInfo(pipeline_log'[k]), item_mem))
                    => /\ ~pipeline_log'[k].built
                       /\ EntriesReturned(graphics_pipeline_cache_, pipeline_log'[k]) # {}
              /\ \A k \in DOMAIN dset_log' :
                    \A e \in DOMAIN descriptor_set_cache_ :
                        DescriptorInfoEq(descriptor_set_cache_[e].key,
                                         DescriptorInfo(program_map_[dset_log'[k].program]))
                        => /\ dset_log'[k].allocated = 0
                           /\ dset_log'[k].descriptor_sets = descriptor_set_cache_[e].value]_vars

\* After the program was deleted, made and linked again and the vertex buffer
\* was deleted and made again, a frame was answered from both caches; the sets
\* it bound name a uniform buffer of the deleted program.
C29_Witness ==
    /\ pc = "submit"
    /\ last_cmd = Cmd("CreateVertexBuffer", 1)
    /\ frames_done >= 1
    /\ Cardinality(DOMAIN gpu_buffers) > NumImages + 1
    /\ Len(pipeline_log) = 1
    /\ ~pipeline_log[1].built
    /\ Len(dset_log) = 1
    /\ dset_log[1].allocated = 0
    /\ dset_log[1].descriptor_sets[1].writes[1].buffer \notin BuffersOf(program_map_[1])

----------------------------------------------------------------------------
(* SpecUpload: vertex buffers, index buffers and textures are created      *)
(* between frames that draw nothing, while frames submitted earlier may    *)
(* still be on the queue; a Create command may also fail after its staging *)
(* buffer was made.                                                        *)

CreateOps == {"CreateVertexBuffer", "CreateIndexBuffer", "CreateTexture2D"}

\* The device-local createBuffer (createImage, allocateMemory) throws, by
\* findMemoryType's runtime_error or the device's out-of-memory error: the
\* handler is left after the staging buffer was made and filled.
CreateThrows(op, h) ==
    /\ Idle
    /\ upload' = Staged(upload)
    /\ UNCHANGED present_requests
    /\ UNCHANGED mapped_memory
    /\ fatal' = TRUE
    /\ last_cmd' = Cmd(op, h)
    /\ UNCHANGED <<logger_, regVars, gpu_buffers, cacheVars, item_mem, syncVars,
                   callVars>>
    /\ UNCHANGED listVars

NextUpload ==
    \/ \E h \in Handles, a \in Addrs : CreateVertexBuffer(h, a)
    \/ \E h \in Handles, t \in {"U16", "U32"} : CreateIndexBuffer(h, t)
    \/ \E h \in Handles : CreateTexture2D(h)
    \/ \E op \in CreateOps, h \in Handles : CreateThrows(op, h)
    \/ \E f \in SyncFrames : FrameBegin(f, item_mem)
    \/ AcquireInTurn
    \/ FrameImageWait
    \/ FrameRecord("first")
    \/ FrameSubmit
    \/ \E j \in gpu_pending : GpuComplete(j)

SpecUpload == Init /\ [][NextUpload]_vars

\* C30: unless a handler was left by an exception, no staging allocation is
\* live and no submitted transfer is outstanding between commands, no staging
\* allocation was freed while a submitted transfer read it, and in the device
\* calls of the Create command that ran last every free of a staging buffer
\* comes after a waitIdle that comes after the submit of the copy reading it.
C30_StagingFreedAfterIdle ==
    ~fatal =>
        /\ upload.staging = {}
        /\ upload.queue = {}
        /\ ~upload.freed_in_use
        /\ \A j \in DOMAIN upload.calls :
              upload.calls[j].call = "free" =>
                  \E i \in 1..(j - 1), k \in 1..(j - 1) :
                      /\ i < k
                      /\ upload.calls[i] = DeviceCall("submit", upload.calls[j].buffer)
                      /\ upload.calls[k].call = "waitIdle"

\* A texture was created after a frame had been submitted: its staging buffer
\* was made and freed, and the frame has completed.
C30_Witness ==
    /\ Idle
    /\ last_cmd.op = "CreateTexture2D"
    /\ frames_done >= 1
    /\ gpu_pending = {}
    /\ upload.calls[1] = DeviceCall("createBuffer", 1)
    /\ upload.calls[Len(upload.calls)] = DeviceCall("free", 1)

----------------------------------------------------------------------------
(* SpecSyncFair: the frames of SpecSync with the scheduling frame() relies *)
(* on.  The render thread runs every step of a call it has started (weak   *)
(* fairness on the steps of frame()), the swap chain hands out an image    *)
(* when asked, and the GPU completes every frame submitted to it.          *)

SpecSyncFair ==
    /\ Init
    /\ [][NextSync]_vars
    /\ WF_vars(\E i \in Images : FrameAcquire(i))
    /\ WF_vars(FrameImageWait)
    /\ WF_vars(FrameRecord("first"))
    /\ WF_vars(FrameSubmit)
    /\ WF_vars(\E j \in gpu_pending : GpuComplete(j))

\* C31: every frame() call eventually returns: between calls the fence of the
\* slot to be used next is signalled or will be (the wait that opens the next
\* call is not on a fence that nothing signals), and a call that is past that
\* wait eventually reaches its return.
C31_FrameReturns ==
    /\ [](pc = "idle" => <>SlotFenceSignaled)
    /\ [](InCall => <>(pc = "idle"))


----------------------------------------------------------------------------
(* SpecUpdate: the resources of one draw are created in any order, frames  *)
(* that draw with them are submitted, and UpdateVertexBuffer and           *)
(* UpdateIndexBuffer are processed at any time between frames, before and  *)
(* after the buffer they name is created.                                  *)

UpdateOps == {"UpdateVertexBuffer", "UpdateIndexBuffer"}

NextUpdate ==
    \/ 1 \notin DOMAIN vertex_buffer_map_ /\ CreateVertexBuffer(1, 1)
    \/ 1 \notin DOMAIN index_buffer_map_ /\ CreateIndexBuffer(1, "U16")
    \/ 1 \notin DOMAIN shader_map_ /\ CreateShader(1, 1)
    \/ 1 \notin DOMAIN program_map_ /\ CreateProgram(1, 1)
    \/ /\ 1 \in DOMAIN program_map_
       /\ 1 \in DOMAIN shader_map_
       /\ program_map_[1].stages = EmptyMap
       /\ AttachShader(1, 1)
    \/ /\ 1 \in DOMAIN program_map_
       /\ program_map_[1].stages # EmptyMap
       /\ Unlinked(1)
       /\ LinkProgram(1, <<"Vertex">>)
    \/ \E h \in Handles : UpdateVertexBuffer(h)
    \/ \E h \in Handles : UpdateIndexBuffer(h)
    \/ /\ Idle
       /\ Linked(1)
       /\ 1 \in DOMAIN vertex_buffer_map_
       /\ \E f \in DescriptorFrames : FrameBegin(f, [a \in ItemAddrs |-> TRUE])
    \/ AcquireInTurn
    \/ FrameImageWait
    \/ FrameRecord("first")
    \/ FrameSubmit
    \/ \E j \in gpu_pending : GpuComplete(j)

SpecUpdate == Init /\ [][NextUpdate]_vars

\* C32: a step that processes UpdateVertexBuffer or UpdateIndexBuffer changes
\* nothing but the record of the command visited last: the registry, the
\* uniform buffers and the staging allocations, both caches and the pool, the
\* fences, the slot index and the pending frames, the log and the fatal flag
\* are as before, whether the handle is registered or not.
C32_UpdateChangesNothing ==
    [][(last_cmd'.op \in UpdateOps /\ last_cmd' # last_cmd) =>
           UNCHANGED <<fatal, logger_, regVars, gpu_buffers, upload, cacheVars,
                       syncVars, item_mem, callVars, present_requests>>]_vars

\* An UpdateIndexBuffer of a handle that is not registered was processed
\* while both caches held an entry and a submitted frame was pending.
C32_Witness ==
    /\ last_cmd = Cmd("UpdateIndexBuffer", 1)
    /\ 1 \notin DOMAIN index_buffer_map_
    /\ graphics_pipeline_cache_ # <<>>
    /\ descriptor_set_cache_ # <<>>
    /\ gpu_pending # {}

----------------------------------------------------------------------------
(* SpecItems: after the set-up, frames of one queue with up to MaxItems    *)
(* items that draw the vertex buffer with the program, each item giving    *)
(* field u.a a byte of its own.                                            *)

ItemsFrames ==
    {[render_queues |->
        <<RenderQueue(NoHandle, <<>>,
                      [k \in DOMAIN bs |->
                          RenderItem(k, 1, 1, NoHandle, 1, TRUE,
                                     <<[name |-> "u.a", value |-> <<bs[k]>>]>>)])>>] :
        bs \in SeqsUpTo(Bytes, MaxItems)}

NextItems ==
    \/ SetUp
    \/ /\ Idle
       /\ Ready
       /\ \E f \in ItemsFrames : FrameBegin(f, [a \in ItemAddrs |-> TRUE])
    \/ AcquireInTurn
    \/ FrameImageWait
    \/ FrameRecord("first")
    \/ FrameSubmit
    \/ \E j \in gpu_pending : GpuComplete(j)

SpecItems == Init /\ [][NextItems]_vars

\* The bytes the GPU reads for a field when it executes the draw of the k-th
\* drawing item of the recorded frame: the command buffer runs after the
\* submit, so it finds what the recording left in the uniform buffer that the
\* descriptor set bound for the draw names for the field's block.
DrawnField(k, name) ==
    LET program == program_map_[dset_log[k].program]
        loc == program.uniform_locations[name]
        ubo == program.uniform_buffers[loc.ubo_index + 1]
        writes == dset_log[k].descriptor_sets[next_index + 1].writes
        w == CHOOSE w \in DOMAIN writes :
                writes[w].buffer \in {ubo.buffers[i] : i \in DOMAIN ubo.buffers}
    IN  SubSeq(gpu_buffers[writes[w].buffer], loc.offset + 1, loc.offset + loc.size)

\* C33: when a frame is recorded and about to be submitted, the draw of every
\* item reads, for every field the item's uniform map names, the value the
\* item gave it, also when another item of the frame uses the same program
\* and gives the field another value.
C33_DrawSeesOwnValue ==
    pc = "submit" =>
        \A k \in DOMAIN dset_log :
            \A u \in DOMAIN DrawingItems[k].uniforms :
                DrawnField(k, DrawingItems[k].uniforms[u].name)
                    = DrawingItems[k].uniforms[u].value

----------------------------------------------------------------------------
(* SpecInFlight: after the set-up, frames of one item that draws with the  *)
(* program and gives field u.a a byte; the swap chain hands out any image  *)
(* and the GPU completes submitted frames at any time.                     *)

InFlightFrames == {f \in ItemsFrames : Len(ItemsOf(f.render_queues)) = 1}

NextInFlight ==
    \/ SetUp
    \/ /\ Idle
       /\ Ready
       /\ \E f \in InFlightFrames : FrameBegin(f, [a \in ItemAddrs |-> TRUE])
    \/ \E i \in Images : FrameAcquire(i)
    \/ FrameImageWait
    \/ FrameRecord("first")
    \/ FrameSubmit
    \/ \E j \in gpu_pending : GpuComplete(j)

SpecInFlight == Init /\ [][NextInFlight]_vars

\* The device buffers a frame submitted for an image can read: those named
\* by the descriptor sets cached for that image.
BuffersReadOn(image) ==
    UNION {{descriptor_set_cache_[e].value[image + 1].writes[w].buffer :
                w \in DOMAIN descriptor_set_cache_[e].value[image + 1].writes} :
           e \in DOMAIN descriptor_set_cache_} \ {NoHandle}

\* The device buffers the recording of the running frame copies to.
CopyTargets == {ubo.buffers[next_index + 2] : ubo \in BlocksOfFrame}

\* The buffers whose content a step changes.
BuffersWritten ==
    {b \in DOMAIN gpu_buffers : gpu_buffers'[b] # gpu_buffers[b]}

\* C34: no buffer that the recording of a frame changes can be read by a
\* frame that was submitted earlier and has not completed when the recording
\* starts, in whatever order images are acquired and frames complete.
C34_NoCopyWhileRead ==
    [][(pc = "record" /\ pc' # "record") =>
          \A j \in gpu_pending : BuffersWritten \cap BuffersReadOn(j.image) = {}]_vars

\* frame() is about to record a frame whose items copy uniforms to the
\* buffer of the acquired image while a frame that drew with the buffer of
\* another image is still pending.
C34_Witness ==
    /\ pc = "record"
    /\ CopyTargets # {}
    /\ \E j \in gpu_pending : j.image # next_index /\ BuffersReadOn(j.image) # {}

----------------------------------------------------------------------------
(* The per-image command buffers (SpecSync).                               *)

\* The command buffer a submitted frame runs: command_buffers_[next_index] of
\* its call, by index.
CommandBufferOf(j) == j.image

\* C35: when frame() begins the command buffer of the acquired image, no
\* frame submitted earlier with that same command buffer is still pending on
\* the GPU.
C35_NoRebeginWhilePending ==
    [][(pc = "record" /\ pc' # "record") =>
          \A j \in gpu_pending : CommandBufferOf(j) # next_index]_vars

\* The command buffer of an image that an earlier frame used has been begun
\* again and recorded, while a frame that runs another command buffer is
\* still pending.
C35_Witness ==
    /\ pc = "submit"
    /\ image_fence_waited # NoFence
    /\ \E j \in gpu_pending : CommandBufferOf(j) # next_index

----------------------------------------------------------------------------
(* The size of a uniform write (SpecUniform).                              *)

\* C36: no uniform write of a recording runs past the end of its block's
\* staging buffer, and for every field an item of the recorded frame wrote,
\* the number of bytes copied from the value is at most the field's recorded
\* size and ends, from the field's recorded offset, within the block's size.
C36_WritesStayInside ==
    /\ ~overrun
    /\ pc = "submit" =>
          \A k \in DOMAIN ItemsOf(frame_arg.render_queues) :
              LET ri == ItemsOf(frame_arg.render_queues)[k]
                  program == program_map_[ri.program]
              IN  \A u \in DOMAIN ri.uniforms :
                      ri.uniforms[u].name \in DOMAIN program.uniform_locations =>
                          LET loc == program.uniform_locations[ri.uniforms[u].name]
                          IN  /\ Len(ri.uniforms[u].value) <= loc.size
                              /\ loc.offset + Len(ri.uniforms[u].value)
                                    <= program.uniform_buffers[loc.ubo_index + 1].size
----------------------------------------------------------------------------
(* SpecPresent: frame() called again and again on frames that draw nothing, *)
(* on a swap chain of one image more than the surface's minimum, with the   *)
(* GPU completing submitted frames and the presentation engine processing   *)
(* present requests at any time; the swap chain hands out only an image     *)
(* that no unprocessed present request holds.                               *)

\* createSwapChain asks for minImageCount + 1 images.
SwapChainImages == 0..NumImages

InitPresent ==
    /\ fatal = FALSE
    /\ logger_ = {}
    /\ last_cmd = Cmd("none", NoHandle)
    /\ vertex_buffer_map_ = EmptyMap
    /\ index_buffer_map_ = EmptyMap
    /\ shader_map_ = EmptyMap
    /\ program_map_ = EmptyMap
    /\ texture_map_ = EmptyMap
    /\ gpu_buffers = EmptyMap
    /\ graphics_pipeline_cache_ = <<>>
    /\ descriptor_set_cache_ = <<>>
    /\ sets_allocated = 0
    /\ pipeline_log = <<>>
    /\ dset_log = <<>>
    /\ item_mem = [a \in ItemAddrs |-> FALSE]
    /\ current_frame_ = 0
    /\ in_flight_fences_ = [s \in Slots |-> TRUE]
    /\ images_in_flight_ = [i \in SwapChainImages |-> NoFence]
    /\ gpu_pending = {}
    /\ pc = "idle"
    /\ frame_arg = EmptyFrame
    /\ next_index = 0
    /\ image_fence_waited = NoFence
    /\ events = <<>>
    /\ command_buffer = <<>>
    /\ overrun = FALSE
    /\ frames_done = 0
    /\ command_list = <<>>
    /\ command_index = 0
    /\ upload = NoUpload
    /\ present_requests = <<>>
    /\ mapped_memory = NoneMapped

\* No unprocessed present request holds image i.
ImageFree(i) ==
    \A k \in DOMAIN present_requests : present_requests[k].image # i

NextPresent ==
    \/ \E f \in SyncFrames : FrameBegin(f, item_mem)
    \/ \E i \in SwapChainImages : ImageFree(i) /\ FrameAcquire(i)
    \/ FrameImageWait
    \/ FrameRecord("first")
    \/ FrameSubmit
    \/ \E j \in gpu_pending : GpuComplete(j)
    \/ PresentProcessed

SpecPresent == InitPresent /\ [][NextPresent]_vars

\* The submits whose wait on slot s's image-available semaphore may still be
\* outstanding: a submit's wait is over at the latest when the submit completes.
ImageAvailableWaits(s) == {j \in gpu_pending : j.slot = s}

\* The signals of slot s's render-finished semaphore that no present has
\* consumed: one for each completed submit of the slot whose present request
\* is unprocessed.
RenderFinishedSignals(s) ==
    {k \in DOMAIN present_requests :
        /\ present_requests[k].slot = s
        /\ \A j \in gpu_pending : j.frame # present_requests[k].frame}

\* C37: over any sequence of frames, a slot's image-available semaphore is
\* given to an acquire only when no earlier submit's wait on it is outstanding,
\* and a slot's render-finished semaphore never holds a second signal before a
\* present has consumed the first.
C37_SemaphoresPaired ==
    /\ pc \in {"image_wait", "record", "submit"} =>
          ImageAvailableWaits(current_frame_) = {}
    /\ \A s \in Slots : Cardinality(RenderFinishedSignals(s)) <= 1

----------------------------------------------------------------------------
(* Create commands on a handle that is registered already.                 *)

\* The handler that ran last made a device-local buffer or image; no handler
\* frees one it made.
DeviceLocalMade(up) ==
    \E i \in DOMAIN up.calls : up.calls[i].call = "createDeviceLocal"

\* The step processes the Create command op on handle h, which map holds.
CreatedAgain(op, h, map) ==
    /\ last_cmd' = Cmd(op, h)
    /\ last_cmd' # last_cmd
    /\ h \in DOMAIN map

\* C38: a Create command on a handle that is registered already leaves the
\* registered record as it was and the handler keeps no device-local buffer
\* or image it made, which no record would own.
C38_CreateAgainLeavesNothing ==
    [][\A h \in Handles :
          /\ CreatedAgain("CreateVertexBuffer", h, vertex_buffer_map_) =>
                /\ vertex_buffer_map_' = vertex_buffer_map_
                /\ ~DeviceLocalMade(upload')
          /\ CreatedAgain("CreateIndexBuffer", h, index_buffer_map_) =>
                /\ index_buffer_map_' = index_buffer_map_
                /\ ~DeviceLocalMade(upload')
          /\ CreatedAgain("CreateTexture2D", h, texture_map_) =>
                /\ texture_map_' = texture_map_
                /\ ~DeviceLocalMade(upload')
          /\ CreatedAgain("CreateShader", h, shader_map_) =>
                shader_map_' = shader_map_
          /\ CreatedAgain("CreateProgram", h, program_map_) =>
                program_map_' = program_map_]_vars

----------------------------------------------------------------------------
(* LinkProgram on a program that was linked by the command before.         *)

\* C39: a LinkProgram that follows a LinkProgram of the same program, no
\* stage attached in between, leaves the program's merged binding list, its
\* list of uniform blocks with their buffers and its flattened field map as
\* the first link made them.
C39_LinkIdempotent ==
    [][(/\ last_cmd = Cmd("LinkProgram", 1)
        /\ last_cmd' = last_cmd
        /\ 1 \in DOMAIN program_map_
        /\ ~fatal) =>
           /\ program_map_'[1].layout_bindings = program_map_[1].layout_bindings
           /\ program_map_'[1].uniform_buffers = program_map_[1].uniform_buffers
           /\ program_map_'[1].uniform_locations = program_map_[1].uniform_locations]_vars

----------------------------------------------------------------------------
(* Host mapping of the uniform staging memory.                             *)

(* SpecMapped: after the set-up, frames of one queue whose items (up to     *)
(* MaxItems, the first with a vertex buffer, the others without) use       *)
(* program 1 and carry no uniform, a name the program does not declare, a  *)
(* declared name, or the two in that order.                                *)

MappedUniformMaps ==
    {<<>>,
     <<[name |-> "u.x", value |-> <<0>>]>>,
     <<[name |-> "u.a", value |-> <<0>>]>>,
     <<[name |-> "u.x", value |-> <<0>>], [name |-> "u.a", value |-> <<0>>]>>}

MappedFrames ==
    {[render_queues |->
        <<RenderQueue(NoHandle, <<>>,
                      [k \in DOMAIN us |->
                          RenderItem(k, 1, IF k = 1 THEN 1 ELSE NoHandle, NoHandle, 1,
                                     TRUE, us[k])])>>] :
        us \in SeqsUpTo(MappedUniformMaps, MaxItems)}

NextMapped ==
    \/ SetUp
    \/ /\ Idle
       /\ Ready
       /\ \E f \in MappedFrames : FrameBegin(f, [a \in ItemAddrs |-> TRUE])
    \/ AcquireInTurn
    \/ FrameImageWait
    \/ FrameRecord("first")
    \/ FrameSubmit
    \/ \E j \in gpu_pending : GpuComplete(j)

SpecMapped == Init /\ [][NextMapped]_vars

\* C40: outside the recording of an item no uniform staging memory is mapped,
\* and no staging block was mapped while mapped or unmapped while not mapped:
\* each item maps every block of its program once and unmaps every one of them
\* once, whatever names its uniforms carry.
C40_NothingLeftMapped ==
    /\ mapped_memory.mapped = {}
    /\ ~mapped_memory.invalid

\* A second frame has been recorded, of two items: the first sets a name the
\* program does not declare before a declared one, the second sets an
\* undeclared name alone and has no vertex buffer; the program has a uniform
\* block and the declared value reached the block's staging buffer.
C40_Witness ==
    /\ pc = "submit"
    /\ frames_done >= 1
    /\ program_map_[1].uniform_buffers # <<>>
    /\ LET items == ItemsOf(frame_arg.render_queues)
       IN  /\ Len(items) = 2
           /\ Len(items[1].uniforms) = 2
           /\ items[1].uniforms[1].name \notin DOMAIN program_map_[1].uniform_locations
           /\ items[1].uniforms[2].name \in DOMAIN program_map_[1].uniform_locations
           /\ Len(items[2].uniforms) = 1
           /\ items[2].uniforms[1].name \notin DOMAIN program_map_[1].uniform_locations
           /\ items[2].vb = NoHandle
    /\ gpu_buffers[program_map_[1].uniform_buffers[1].buffers[1]][1] = 0
    /\ mapped_memory = NoneMapped

====
